---------------------------- MODULE Spec2Model ----------------------------
(***************************************************************************)
(* A model of the decision pipeline of the Dungeon Crawl bot:              *)
(*   - the rule engine (src/src/decision_engine.py),                       *)
(*   - the engine-based bot's per-turn decision and session-protocol       *)
(*     helpers (src/src/bot.py, src/src/game_state.py),                    *)
(*   - the legacy bot's per-turn decision (src/bot.py),                    *)
(*   - the character-creation state machine                                *)
(*     (src/src/state_machines/char_creation_state_machine.py).            *)
(*                                                                         *)
(* A command is a sequence of keys; a key is a one-element token: a        *)
(* printable character, or the name of a control character ("ESC" for      *)
(* 0x1b, "TAB" for 0x09, "CTRL_R" for 0x12).  The empty command "" is the  *)
(* empty sequence; Python's None is the record field none = TRUE.          *)
(***************************************************************************)
EXTENDS Integers, Sequences, FiniteSets, TLC

VARIABLES
    phase,      \* which step the modelled caller, or the run loop, is at
    rules,      \* DecisionEngine.rules of a hand-built engine (add order)
    ctx,        \* the DecisionContext handed to decide
    result,     \* what decide returned: [none, command, reason]
    bot,        \* the fields of DCSSBot
    parser,     \* GameStateParser: its GameState and health cache
    tracker,    \* the current state of the bot's GameStateMachine
    screen,     \* the text of the screen buffer
    sent,       \* the command last written to the game
    returned,   \* what the last helper call returned: [none, command]
    hist,       \* history of the run, kept for stating properties
    creation,   \* the CharacterCreationStateMachine of the bot
    game        \* a GameStateMachine driven through update(screen, context)

vars ==
    <<phase, rules, ctx, result, bot, parser, tracker, screen, sent, returned, hist,
      creation, game>>

startvars == <<creation, game>>

enginevars == <<rules, ctx, result>>

botvars == <<bot, parser, tracker, screen, sent, returned, hist>>

-----------------------------------------------------------------------------
(* Bounds of the model                                                     *)

MaxRules == 3
MaxFlags == 3
MaxLevel == 2
MaxTarget == 11

-----------------------------------------------------------------------------
(* Priority (decision_engine.py, class Priority)                           *)

CRITICAL == 1
HIGH == 10
NORMAL == 20
LOW == 30

UrgentAfterHigh == HIGH + 5

URGENT == 5

PriorityOrder == <<CRITICAL, URGENT, HIGH, NORMAL, LOW>>

PriorityValues == {PriorityOrder[i] : i \in 1..Len(PriorityOrder)}

-----------------------------------------------------------------------------
(* Commands                                                                *)

NoCommand == <<>>

Digits == <<"0", "1", "2", "3", "4", "5", "6", "7", "8", "9">>

RECURSIVE DecStr(_)
(* Python's str(n) for an integer n: its decimal digits, most significant  *)
(* first, with a leading "-" when n is negative.                           *)
DecStr(n) ==
    IF n < 0 THEN <<"-">> \o DecStr(-n)
    ELSE IF n < 10 THEN <<Digits[n + 1]>>
    ELSE DecStr(n \div 10) \o <<Digits[(n % 10) + 1]>>

Returned(command, reason) == [none |-> FALSE, command |-> command, reason |-> reason]

NoneResult(reason) == [none |-> TRUE, command |-> NoCommand, reason |-> reason]

NotDecided == [none |-> TRUE, command |-> NoCommand, reason |-> "(not called)"]


-----------------------------------------------------------------------------
(* DecisionContext (decision_engine.py, class DecisionContext).  The       *)
(* fields no rule condition or command reads (output, enemy_name,          *)
(* move_count, last_equipment_check, last_inventory_refresh) are left out. *)

GotoStates == {"None", "awaiting_location_type", "awaiting_level_number"}

Tab == <<"TAB">>

FlagNames ==
    {"enemy_detected", "items_on_ground", "in_shop", "in_inventory_screen",
     "in_item_pickup_menu", "in_menu", "equip_slot_pending",
     "quaff_slot_pending", "has_level_up", "has_more_prompt",
     "attribute_increase_prompt", "save_game_prompt",
     "has_gameplay_indicators", "gameplay_started", "last_action_tab"}

(* The context whose boolean fields are exactly those named in F.          *)
MakeContext(F, hp, lvl, lastLvl, lastAttr, depth, goto, target) ==
    [health |-> hp[1], max_health |-> hp[2],
     level |-> lvl, dungeon_level |-> depth,
     enemy_detected |-> "enemy_detected" \in F,
     items_on_ground |-> "items_on_ground" \in F,
     in_shop |-> "in_shop" \in F,
     in_inventory_screen |-> "in_inventory_screen" \in F,
     in_item_pickup_menu |-> "in_item_pickup_menu" \in F,
     in_menu |-> "in_menu" \in F,
     equip_slot_pending |-> "equip_slot_pending" \in F,
     quaff_slot_pending |-> "quaff_slot_pending" \in F,
     has_level_up |-> "has_level_up" \in F,
     has_more_prompt |-> "has_more_prompt" \in F,
     attribute_increase_prompt |-> "attribute_increase_prompt" \in F,
     save_game_prompt |-> "save_game_prompt" \in F,
     last_action_sent |-> IF "last_action_tab" \in F THEN Tab ELSE NoCommand,
     last_level_up_processed |-> lastLvl,
     last_attribute_increase_level |-> lastAttr,
     has_gameplay_indicators |-> "has_gameplay_indicators" \in F,
     gameplay_started |-> "gameplay_started" \in F,
     goto_state |-> goto,
     goto_target_level |-> target]

(* DecisionContext.health_percentage compared with a threshold t.  The     *)
(* code computes (health / max_health) * 100 in floating point and returns *)
(* 100.0 when max_health <= 0; for the integers of the model the           *)
(* comparisons agree with the exact ones below.                            *)
PercentAtLeast(c, t) ==
    IF c.max_health <= 0 THEN 100 >= t ELSE c.health * 100 >= t * c.max_health

PercentAtMost(c, t) ==
    IF c.max_health <= 0 THEN 100 <= t ELSE c.health * 100 <= t * c.max_health

-----------------------------------------------------------------------------
(* create_default_engine: the rules in the order they are added.           *)

MorePromptAfterCombat == LOW

(* priority=Priority.CRITICAL of the "More prompt" rule                    *)
MorePromptPriority == CRITICAL

DefaultRule(name, priority) ==
    [name |-> name, priority |-> priority, cond |-> "default", act |-> "default"]

DefaultRules ==
    << DefaultRule("Equip slot prompt", CRITICAL),
       DefaultRule("Quaff slot prompt", CRITICAL),
       DefaultRule("Attribute increase prompt", CRITICAL),
       DefaultRule("Save game prompt", CRITICAL),
       DefaultRule("More prompt", MorePromptPriority),
       DefaultRule("Screen redraw (health unreadable)", CRITICAL),
       DefaultRule("Shop detected", HIGH),
       DefaultRule("Item pickup menu", HIGH),
       DefaultRule("Inventory screen", HIGH),
       DefaultRule("In menu", HIGH),
       DefaultRule("Level-up with more prompt", URGENT),
       DefaultRule("Level-up", URGENT),
       DefaultRule("Items on ground", URGENT),
       DefaultRule("Better armor available", URGENT),
       DefaultRule("Untested potions", URGENT),
       DefaultRule("Combat (low health - move to engage)", NORMAL),
       DefaultRule("Combat (autofight)", NORMAL),
       DefaultRule("Goto location type", NORMAL),
       DefaultRule("Goto level number", NORMAL),
       DefaultRule("Rest after autofight", NORMAL),
       DefaultRule("Explore (good health)", NORMAL),
       DefaultRule("Rest to recover", NORMAL),
       DefaultRule("Explore (game not ready)", LOW),
       DefaultRule("Waiting for gameplay", LOW),
       DefaultRule("Fallback exploration", LOW) >>

(* The condition lambda of each default rule.                              *)
CombatBelowThreshold(c) == ~PercentAtLeast(c, 70)

(* ctx.health_percentage <= 70 of the low-health combat rule               *)
CombatLowHealth(c) == PercentAtMost(c, 70)

ExploreFromBelow(c) == PercentAtLeast(c, 59)

(* ctx.health_percentage >= 60 of the explore rule                         *)
ExploreGoodHealth(c) == PercentAtLeast(c, 60)

DefaultCondition(name, c) ==
    CASE name = "Equip slot prompt" -> c.equip_slot_pending
      [] name = "Quaff slot prompt" -> c.quaff_slot_pending
      [] name = "Attribute increase prompt" ->
            c.attribute_increase_prompt /\ c.level > c.last_attribute_increase_level
      [] name = "Save game prompt" -> c.save_game_prompt
      [] name = "More prompt" -> c.has_more_prompt
      [] name = "Screen redraw (health unreadable)" ->
            c.health = 0 /\ c.max_health = 0
      [] name = "Shop detected" -> c.in_shop
      [] name = "Item pickup menu" -> c.in_item_pickup_menu
      [] name = "Inventory screen" -> c.in_inventory_screen
      [] name = "In menu" -> c.in_menu
      [] name = "Level-up with more prompt" ->
            c.has_level_up /\ c.has_more_prompt /\ c.level > c.last_level_up_processed
      [] name = "Level-up" ->
            c.has_level_up /\ c.level > c.last_level_up_processed
      [] name = "Items on ground" -> c.items_on_ground
      [] name = "Better armor available" -> FALSE
      [] name = "Untested potions" -> FALSE
      [] name = "Combat (low health - move to engage)" ->
            c.enemy_detected /\ CombatLowHealth(c)
      [] name = "Combat (autofight)" ->
            c.enemy_detected /\ ~PercentAtMost(c, 70)
      [] name = "Goto location type" -> c.goto_state = "awaiting_location_type"
      [] name = "Goto level number" -> c.goto_state = "awaiting_level_number"
      [] name = "Rest after autofight" ->
            c.last_action_sent = Tab /\ ~c.enemy_detected
      [] name = "Explore (good health)" ->
            c.has_gameplay_indicators /\ ExploreGoodHealth(c)
      [] name = "Rest to recover" ->
            c.has_gameplay_indicators /\ ~PercentAtLeast(c, 60)
      [] name = "Explore (game not ready)" -> c.has_gameplay_indicators
      [] name = "Waiting for gameplay" -> ~c.gameplay_started
      [] name = "Fallback exploration" -> TRUE

GotoLevelCurrent(c) == DecStr(c.dungeon_level)

(* str(ctx.goto_target_level) of the "Goto level number" rule              *)
GotoLevelCommand(c) == DecStr(c.goto_target_level)

(* The action lambda of each default rule.  A reason that the code builds  *)
(* with a formatted health percentage or enemy name is kept up to that     *)
(* formatted part.                                                         *)
DefaultAction(name, c) ==
    CASE name = "Equip slot prompt" -> Returned(NoCommand, "")
      [] name = "Quaff slot prompt" -> Returned(NoCommand, "")
      [] name = "Attribute increase prompt" ->
            Returned(<<"S">>, "Level-up: Increasing Strength")
      [] name = "Save game prompt" ->
            Returned(<<"n">>, "Rejecting save prompt - continuing gameplay")
      [] name = "More prompt" -> Returned(<<" ">>, "Dismissing --more-- prompt")
      [] name = "Screen redraw (health unreadable)" ->
            Returned(<<"CTRL_R">>, "Requesting screen redraw (health display missing)")
      [] name = "Shop detected" -> Returned(<<"ESC">>, "Exiting shop (not buying)")
      [] name = "Item pickup menu" -> Returned(NoCommand, "")
      [] name = "Inventory screen" -> Returned(NoCommand, "")
      [] name = "In menu" -> Returned(<<".">>, "Waiting in menu")
      [] name = "Level-up with more prompt" ->
            Returned(<<" ">>, "Dismissing level-up --more-- prompt")
      [] name = "Level-up" -> Returned(<<".">>, "Level-up processed")
      [] name = "Items on ground" -> Returned(<<"g">>, "Grabbing items from ground")
      [] name = "Better armor available" -> Returned(NoCommand, "")
      [] name = "Untested potions" -> Returned(NoCommand, "")
      [] name = "Combat (low health - move to engage)" ->
            Returned(<<"l">>, "Moving toward enemy to engage (low health)")
      [] name = "Combat (autofight)" -> Returned(Tab, "Autofight - enemy in range")
      [] name = "Goto location type" ->
            Returned(<<"D">>, "Selecting Dungeon from goto location menu")
      [] name = "Goto level number" ->
            Returned(GotoLevelCommand(c), "Descending to dungeon level")
      [] name = "Rest after autofight" -> Returned(<<".">>, "Waiting after autofight")
      [] name = "Explore (good health)" -> Returned(<<"o">>, "Auto-explore (health)")
      [] name = "Rest to recover" -> Returned(<<"5">>, "Resting to recover (health)")
      [] name = "Explore (game not ready)" -> Returned(<<"o">>, "Auto-explore")
      [] name = "Waiting for gameplay" ->
            Returned(<<"o">>, "Auto-explore (waiting for gameplay to start)")
      [] name = "Fallback exploration" -> Returned(<<"o">>, "Auto-explore (fallback)")

-----------------------------------------------------------------------------
(* Rule and DecisionEngine.decide                                          *)

(* A hand-built rule, as the tests build them: its condition is a constant *)
(* lambda ("true", "false") or one that raises ("raise"); its action       *)
(* returns (name, name) ("return") or raises ("raise").                    *)
RuleNames == <<"r1", "r2", "r3", "r4", "r5", "r6">>

RuleShapes ==
    { <<"true", "return">>, <<"true", "raise">>,
      <<"false", "return">>, <<"raise", "return">> }

(* rule.condition(context): "true", "false" or "raise"                     *)
RuleCondition(rule, c) ==
    IF rule.cond = "default"
    THEN (IF DefaultCondition(rule.name, c) THEN "true" ELSE "false")
    ELSE rule.cond

(* rule.action(context): the pair it returns, or raised = TRUE             *)
RuleAction(rule, c) ==
    IF rule.act = "default"
    THEN [raised |-> FALSE, value |-> DefaultAction(rule.name, c)]
    ELSE IF rule.act = "raise"
    THEN [raised |-> TRUE, value |-> NoneResult("(raised)")]
    ELSE [raised |-> FALSE, value |-> Returned(<<rule.name>>, rule.name)]

UnsortedRules(rs) == rs

RECURSIVE SortedPrefix(_, _)
TiesReversed(rs, n) ==
    IF n = 0 THEN <<>>
    ELSE LET before == SortedPrefix(rs, n - 1)
             keep == SelectSeq(before, LAMBDA r : r.priority < rs[n].priority)
             rest == SelectSeq(before, LAMBDA r : r.priority >= rs[n].priority)
         IN  keep \o <<rs[n]>> \o rest

(* sorted(self.rules, key=lambda r: r.priority.value): Python's sort is    *)
(* stable.  The first n rules, sorted: the n-th rule goes after every rule *)
(* already placed whose priority value is not greater than its own.        *)
SortedPrefix(rs, n) ==
    IF n = 0 THEN <<>>
    ELSE LET before == SortedPrefix(rs, n - 1)
             keep == SelectSeq(before, LAMBDA r : r.priority <= rs[n].priority)
             rest == SelectSeq(before, LAMBDA r : r.priority > rs[n].priority)
         IN  keep \o <<rs[n]>> \o rest

SortedRules(rs) == SortedPrefix(rs, Len(rs))

(* an exception that leaves decide                                         *)
Raised == [none |-> TRUE, command |-> NoCommand, reason |-> "(exception)"]

RECURSIVE EvaluateFrom(_, _, _)

Uncaught(sorted, i, c) == Raised

(* except Exception: continue                                              *)
Caught(sorted, i, c) == EvaluateFrom(sorted, i + 1, c)

(* rule.condition(context) or rule.action(context) raises                  *)
RuleRaises(rule, c) ==
    \/ RuleCondition(rule, c) = "raise"
    \/ RuleCondition(rule, c) = "true" /\ RuleAction(rule, c).raised

(* The for loop of decide over the sorted rules, from position i.          *)
EvaluateFrom(sorted, i, c) ==
    IF i > Len(sorted) THEN NoneResult("No matching rules")
    ELSE IF RuleRaises(sorted[i], c) THEN Caught(sorted, i, c)
    ELSE IF RuleCondition(sorted[i], c) = "true" THEN RuleAction(sorted[i], c).value
    ELSE EvaluateFrom(sorted, i + 1, c)

decide(rs, c) == EvaluateFrom(SortedRules(rs), 1, c)


-----------------------------------------------------------------------------
(* Screens.  A screen text is described by what the code looks for in it:  *)
(* the phrases it contains, the level a level-up message names, the values *)
(* its status lines show, the direction of the nearest enemy on its map    *)
(* and its inventory lines.  An absent value is <<>>, a present one <<v>>. *)

MaxTexts == 2
MaxDepth == 2
MaxLines == 2
MaxSteps == 2

Absent == <<>>

Phrases ==
    {"Increase (S)trength", "--more--", "Done exploring", "please select",
     "enemy in range", "quit"}

Blank ==
    [texts |-> {}, levelup |-> Absent, xl |-> Absent, depth |-> Absent,
     hp |-> Absent, mp |-> Absent, next |-> Absent, toward |-> ".", inv |-> <<>>]

(* if not output                                                           *)
IsEmpty(f) == f = Blank

(* a status line: one of 'Health', 'HP', 'XL:', 'Time:', 'Depth:',         *)
(* 'Dungeon:' occurs in a line of the screen.  The values a screen shows   *)
(* (hp, mp, xl, next, depth) are those of its status lines.                *)
HasStatus(f) ==
    f.hp # Absent \/ f.xl # Absent \/ f.depth # Absent \/ f.mp # Absent \/ f.next # Absent

(* The inventory lines "slot - description".  A description is given by    *)
(* the words parse_inventory_screen looks for: its enchantment "+n"/"-n",  *)
(* its noun, its colour word and whether it ends in "(unknown)".           *)
Descriptions ==
    { [enchant |-> <<"+", 2>>, noun |-> "leather armour", colour |-> Absent, unknown |-> FALSE],
      [enchant |-> <<"+", 3>>, noun |-> "scale mail", colour |-> Absent, unknown |-> FALSE],
      [enchant |-> Absent, noun |-> "potion", colour |-> <<"red">>, unknown |-> TRUE] }

InventorySlots == {"a", "b"}

InventoryLines == { [slot |-> s, desc |-> d] : s \in InventorySlots, d \in Descriptions }

-----------------------------------------------------------------------------
(* GameStateParser (game_state.py)                                         *)

(* gold, hunger_level and dungeon_branch are assigned the way              *)
(* experience_level is and are left out                                    *)
InitParser ==
    [experience_level |-> 1, experience_progress |-> 0, dungeon_level |-> 1,
     health |-> 10, max_health |-> 10, last_health |-> <<10, 10>>,
     mana |-> 0, max_mana |-> 0, last_mana |-> <<0, 0>>,
     inventory_items |-> <<>>, untested_potions |-> <<>>, equipped_items |-> <<>>]

StaleHealth(before, after) == before

(* self.last_health = (self.state.health, self.state.max_health), read     *)
(* after the lines were parsed                                             *)
CachedHealth(before, after) == after

(* parse_output: a value the screen does not show keeps what it was; a     *)
(* screen without any status line takes its health and mana from the       *)
(* caches.                                                                 *)
parse_output(p, f) ==
    IF IsEmpty(f) THEN p
    ELSE LET shown == IF f.hp # Absent THEN f.hp[1] ELSE <<p.health, p.max_health>>
             cache == IF shown[1] > 0 /\ shown[2] > 0
                      THEN CachedHealth(<<p.health, p.max_health>>, shown)
                      ELSE p.last_health
             now == IF ~HasStatus(f) THEN cache ELSE shown
             mshown == IF f.mp # Absent THEN f.mp[1] ELSE <<p.mana, p.max_mana>>
             mcache == IF mshown[1] >= 0 /\ mshown[2] > 0 THEN mshown ELSE p.last_mana
             mnow == IF ~HasStatus(f) THEN mcache ELSE mshown
         IN  [p EXCEPT !.experience_level = IF f.xl # Absent THEN f.xl[1] ELSE @,
                       !.experience_progress = IF f.next # Absent THEN f.next[1] ELSE @,
                       !.dungeon_level = IF f.depth # Absent THEN f.depth[1] ELSE @,
                       !.health = now[1],
                       !.max_health = now[2],
                       !.last_health = cache,
                       !.mana = mnow[1],
                       !.max_mana = mnow[2],
                       !.last_mana = mcache]

is_game_ready(f) == ~IsEmpty(f) /\ (f.hp # Absent \/ f.xl # Absent \/ f.depth # Absent)

is_game_over(f) == "You die" \in f.texts

has_level_up_message(f) == f.levelup # Absent

(* None (Absent) when the message carries no number                        *)
extract_level_from_message(f) == f.levelup

ArmorNouns == {"leather armour", "scale mail", "helmet"}

(* the first keyword list of parse_inventory_screen that matches           *)
ItemType(d) ==
    IF d.noun = "potion" THEN "potion"
    ELSE IF d.noun \in ArmorNouns THEN "armor"
    ELSE "unknown"

(* 'armour', 'leather', 'scale' -> body; 'helmet' -> head                  *)
EquipmentSlot(d) ==
    IF d.noun \in {"leather armour", "scale mail"} THEN <<"body">>
    ELSE IF d.noun = "helmet" THEN <<"head">>
    ELSE Absent

(* ac_value = -value if sign == '+' else value                             *)
AcValue(d) ==
    IF ItemType(d) = "armor" /\ d.enchant # Absent
    THEN (IF d.enchant[1] = "+" THEN -d.enchant[2] ELSE d.enchant[2])
    ELSE 0

InventoryItem(line) ==
    [slot |-> line.slot,
     item_type |-> ItemType(line.desc),
     identified |-> ~(line.desc.noun = "potion" /\ line.desc.unknown),
     color |-> IF line.desc.noun = "potion" THEN line.desc.colour ELSE Absent,
     ac_value |-> AcValue(line.desc),
     is_equipped |-> FALSE,
     equipment_slot |-> IF ItemType(line.desc) = "armor" THEN EquipmentSlot(line.desc) ELSE Absent]

(* d[key] = value for a dict kept as the sequence of its entries in        *)
(* insertion order: a key already present keeps its position.              *)
DictSet(d, entry) ==
    IF \E k \in 1..Len(d) : d[k].slot = entry.slot
    THEN [k \in 1..Len(d) |-> IF d[k].slot = entry.slot THEN entry ELSE d[k]]
    ELSE Append(d, entry)

RECURSIVE ParseLines(_, _, _)
(* The loop of parse_inventory_screen over the lines from position i:      *)
(* items is the local dict, untested is state.untested_potions.            *)
ParseLines(lines, i, acc) ==
    IF i > Len(lines) THEN acc
    ELSE LET item == InventoryItem(lines[i])
             items == DictSet(acc.items, item)
             untested ==
                 IF item.item_type = "potion" /\ ~item.identified /\ item.color # Absent
                 THEN DictSet(acc.untested, [slot |-> item.slot, color |-> item.color[1]])
                 ELSE acc.untested
         IN  ParseLines(lines, i + 1, [items |-> items, untested |-> untested])

parse_inventory_screen(p, f) ==
    LET done == ParseLines(f.inv, 1, [items |-> <<>>, untested |-> p.untested_potions])
    IN  [p EXCEPT !.inventory_items = done.items, !.untested_potions = done.untested]

(* state.equipped_items.get(equipment_slot)                                *)
EquippedIn(p, eslot) ==
    SelectSeq(p.equipped_items, LAMBDA e : e.equipment_slot = eslot)

ImprovementOrEqual(p, item) ==
    IF item.item_type # "armor" \/ item.equipment_slot = Absent THEN Absent
    ELSE IF item.is_equipped THEN Absent
    ELSE IF ~(item.ac_value < 0) THEN Absent
    ELSE LET current == EquippedIn(p, item.equipment_slot)
         IN  IF current # <<>> /\ item.ac_value <= current[1].ac_value
             THEN <<current[1].ac_value - item.ac_value>>
             ELSE IF current = <<>> THEN <<-item.ac_value>>
             ELSE Absent

(* The improvement find_better_armor credits to an item, Absent when the   *)
(* item is not a candidate.                                                *)
Improvement(p, item) ==
    IF item.item_type # "armor" \/ item.equipment_slot = Absent THEN Absent
    ELSE IF item.is_equipped THEN Absent
    ELSE IF ~(item.ac_value < 0) THEN Absent
    ELSE LET current == EquippedIn(p, item.equipment_slot)
         IN  IF current # <<>> /\ item.ac_value < current[1].ac_value
             THEN <<current[1].ac_value - item.ac_value>>
             ELSE IF current = <<>> THEN <<-item.ac_value>>
             ELSE Absent

(* better_items in the order the candidates were appended                  *)
BetterItems(p) ==
    SelectSeq(p.inventory_items, LAMBDA item : Improvement(p, item) # Absent)

last_better_armor(p) ==
    LET better == BetterItems(p)
    IN  IF better = <<>> THEN Absent
        ELSE LET k == CHOOSE k \in 1..Len(better) :
                        /\ \A j \in 1..Len(better) :
                              Improvement(p, better[j])[1] <= Improvement(p, better[k])[1]
                        /\ \A j \in (k + 1)..Len(better) :
                              Improvement(p, better[j])[1] < Improvement(p, better[k])[1]
             IN  <<better[k]>>

(* find_better_armor: the first candidate of greatest improvement (the     *)
(* sort is stable), Absent when there is none.                             *)
find_better_armor(p) ==
    LET better == BetterItems(p)
    IN  IF better = <<>> THEN Absent
        ELSE LET k == CHOOSE k \in 1..Len(better) :
                        /\ \A j \in 1..Len(better) :
                              Improvement(p, better[j])[1] <= Improvement(p, better[k])[1]
                        /\ \A j \in 1..(k - 1) :
                              Improvement(p, better[j])[1] < Improvement(p, better[k])[1]
             IN  <<better[k]>>

-----------------------------------------------------------------------------
(* GameStateMachine (state_machines/game_state_machine.py)                 *)

(* the transitions declared by the class: event -> {source states}         *)
Allowed(event, state) ==
    CASE event = "connect" -> state = "disconnected"
      [] event = "start_game" -> state = "connected"
      [] event = "enter_menu" -> state = "gameplay"
      [] event = "exit_menu" -> state = "in_menu"
      [] event = "start_combat" -> state = "gameplay"
      [] event = "end_combat" -> state = "in_combat"
      [] event = "quit_game" -> state = "gameplay"
      [] event = "on_error" -> state \in {"disconnected", "connected", "gameplay"}
      [] event = "recover" -> state = "error_state"

Target(event) ==
    CASE event = "connect" -> "connected"
      [] event = "start_game" -> "gameplay"
      [] event = "enter_menu" -> "in_menu"
      [] event = "exit_menu" -> "gameplay"
      [] event = "start_combat" -> "in_combat"
      [] event = "end_combat" -> "gameplay"
      [] event = "quit_game" -> "quit_state"
      [] event = "on_error" -> "error_state"
      [] event = "recover" -> "disconnected"

(* Sending an event: TransitionNotAllowed is raised when the event has no  *)
(* transition from the current state.                                      *)
Fire(event, state) ==
    IF Allowed(event, state)
    THEN [raised |-> FALSE, state |-> Target(event)]
    ELSE [raised |-> TRUE, state |-> state]

Stay(state) == [raised |-> FALSE, state |-> state]

(* menu_indicators of _detect_state_change and is_menu_screen             *)
is_menu_screen(f) == "please select" \in f.texts

(* gameplay_indicators: of the texts of the model "level" occurs in a      *)
(* level-up message and "dungeon" where the depth is shown                 *)
IsGameplayText(f) == f.levelup # Absent \/ f.depth # Absent

(* update(screen_text) without context: _detect_state_change               *)
TrackerUpdate(state, f) ==
    IF "quit" \in f.texts
    THEN (IF state # "quit_state" THEN Fire("quit_game", state) ELSE Stay(state))
    ELSE IF "error" \in f.texts
    THEN (IF state # "error_state" THEN Fire("on_error", state) ELSE Stay(state))
    ELSE IF is_menu_screen(f) /\ IsGameplayText(f)
    THEN (IF state = "gameplay" THEN Fire("enter_menu", state) ELSE Stay(state))
    ELSE IF ~is_menu_screen(f) /\ IsGameplayText(f)
    THEN (IF state = "in_menu" THEN Fire("exit_menu", state)
          ELSE IF state = "in_combat" THEN Fire("end_combat", state)
          ELSE Stay(state))
    ELSE Stay(state)

in_menu_state(state, f) == state = "in_menu" \/ is_menu_screen(f)

(* The machine with the fields update assigns.  after __init__:            *)
(* previous_state None is "None"; state_history is a log nothing reads and *)
(* is left out.  raised: the last call left by TransitionNotAllowed.       *)
InitGame ==
    [state |-> "disconnected", previous_state |-> "None", last_screen |-> Blank,
     enemy_nearby |-> FALSE, health_low |-> FALSE, raised |-> FALSE]

NoContext == [enemy_nearby |-> Absent, health_low |-> Absent]

(* if self.enemy_nearby and self.current_state == self.gameplay:           *)
(*     self.start_combat()                                                 *)
StartCombat(g, c) ==
    IF c.enemy_nearby = <<TRUE>> /\ g.state = "gameplay"
    THEN Fire("start_combat", g.state)
    ELSE Stay(g.state)

(* self._detect_state_change()                                             *)
DetectStateChange(state, f) == TrackerUpdate(state, f)

(* update(screen_text, **context) with the keywords c gives; an exception  *)
(* leaves the fields assigned before it and previous_state as they are     *)
GameUpdate(g, f, c) ==
    LET combat == StartCombat(g, c)
        after == DetectStateChange(combat.state, f)
    IN  [state |-> after.state,
         previous_state |-> IF after.raised THEN g.previous_state ELSE g.state,
         last_screen |-> f,
         enemy_nearby |-> IF c.enemy_nearby # Absent THEN c.enemy_nearby[1]
                          ELSE g.enemy_nearby,
         health_low |-> IF c.health_low # Absent THEN c.health_low[1] ELSE g.health_low,
         raised |-> after.raised]

(* an event sent from outside update                                       *)
GameEvent(g, event) ==
    LET fired == Fire(event, g.state)
    IN  [g EXCEPT !.state = fired.state, !.raised = fired.raised]

is_in_combat(g) == g.state = "in_combat"

(* reset()                                                                 *)
GameReset(g) == [g EXCEPT !.state = "disconnected", !.raised = FALSE]

-----------------------------------------------------------------------------
(* DCSSBot: the fields after __init__ and the part of run before its loop  *)
(* (state_tracker.connect(), gameplay_started = True).  action is the      *)
(* local variable of run.                                                  *)

max_unchanged_screens == 5

(* max_consecutive_no_output, a local of run                               *)
max_consecutive_no_output == 20

(* the number of moves _detect_items_on_ground waits after a failed grab   *)
GrabCooldown == 5

(* max_steps is the argument of run, consecutive_no_output its local       *)
(* counter, items_on_ground the local of _prepare_decision_context.        *)
InitBot ==
    [move_count |-> 0,
     max_steps |-> MaxSteps,
     consecutive_no_output |-> 0,
     last_grab_attempt |-> 0,
     last_grab_failed |-> FALSE,
     items_on_ground |-> FALSE,
     action |-> NoCommand,
     last_action_sent |-> NoCommand,
     action_reason |-> "",
     goto_state |-> "None",
     goto_target_level |-> 0,
     waiting_for_goto_prompt |-> FALSE,
     quaff_slot |-> Absent,
     equip_slot |-> Absent,
     in_inventory_screen |-> FALSE,
     last_inventory_refresh |-> 0,
     last_level_up_processed |-> 0,
     last_attribute_increase_level |-> 0,
     gameplay_started |-> TRUE,
     last_known_health |-> 0,
     last_known_max_health |-> 0,
     unchanged_screen_count |-> 0]

InitTracker == Fire("connect", "disconnected").state

(* _return_action(action, reason): records the reason                      *)
Outcome(command, reason, b, p) ==
    [none |-> FALSE, command |-> command,
     bot |-> [b EXCEPT !.action_reason = reason], parser |-> p]

AttributeForgotten(b, level) == b

(* self.last_attribute_increase_level = current_level                      *)
AttributeAnswered(b, level) == [b EXCEPT !.last_attribute_increase_level = level]

LevelUpForgotten(b, level) == b

(* self.last_level_up_processed = new_level                                *)
LevelUpProcessed(b, level) == [b EXCEPT !.last_level_up_processed = level]

(* health_percentage <= t and >= t for the parsed health                   *)
HealthAtMost(health, max_health, t) ==
    IF max_health > 0 THEN health * 100 <= t * max_health ELSE 100 <= t

HealthAtLeast(health, max_health, t) == health * 100 >= t * max_health

CooldownForgotten(b) == b.last_grab_failed /\ b.move_count < b.last_grab_attempt

(* a failed grab still holds the next attempts back at this move count     *)
InCooldown(b) == b.last_grab_failed /\ b.move_count < b.last_grab_attempt + GrabCooldown

(* _detect_items_on_ground(output): what it returns and the fields it      *)
(* sets.  "Nothing to pick up" stands for either of the two texts of a     *)
(* failed grab, "corpse" for a corpse or missile word next to the          *)
(* "You see here" message.                                                 *)
DetectItemsOnGround(b, f) ==
    IF IsEmpty(f) THEN [bot |-> b, found |-> FALSE]
    ELSE IF "Nothing to pick up" \in f.texts
    THEN [bot |-> [b EXCEPT !.last_grab_attempt = b.move_count,
                            !.last_grab_failed = TRUE],
          found |-> FALSE]
    ELSE IF InCooldown(b) THEN [bot |-> b, found |-> FALSE]
    ELSE [bot |-> [b EXCEPT !.last_grab_failed = FALSE],
          found |-> "You see here" \in f.texts /\ "corpse" \notin f.texts]

(* The health and action logic of the legacy _decide_action, from the      *)
(* gameplay-indicator check on.  has_combat_action is taken to hold where  *)
(* an enemy is listed; char_creation_state.in_gameplay is read only when   *)
(* gameplay_started is False, which run sets to True before the loop.      *)
LegacyGameplay(b0, p0, trk, f) ==
    LET indicators == f.hp # Absent \/ f.xl # Absent \/ "enemy in range" \in f.texts
        b == IF indicators THEN [b0 EXCEPT !.gameplay_started = TRUE] ELSE b0
    IN  IF ~indicators /\ ~b0.gameplay_started
        THEN Outcome(<<"o">>, "Auto-explore (waiting for gameplay to start)", b, p0)
        ELSE IF IsEmpty(f)
        THEN Outcome(<<"o">>, "No output - auto-exploring", b, p0)
        ELSE
        LET p == parse_output(p0, f)
            cacheNow == p.max_health > 0
            bh == IF cacheNow
                  THEN [b EXCEPT !.last_known_max_health = p.max_health,
                                 !.last_known_health = p.health]
                  ELSE b
            health == IF ~cacheNow /\ b.last_known_max_health > 0
                      THEN b.last_known_health ELSE p.health
            max_health == IF ~cacheNow /\ b.last_known_max_health > 0
                          THEN b.last_known_max_health ELSE p.max_health
        IN  IF "enemy in range" \in f.texts
            THEN (IF HealthAtMost(p.health, p.max_health, 70)
                  THEN Outcome(<<f.toward>>, "Combat: Moving toward enemy (low health)", b, p)
                  ELSE Outcome(Tab, "Autofight - enemy in range", b, p))
            ELSE IF ~is_game_ready(f)
            THEN (IF b.last_action_sent = Tab
                  THEN Outcome(<<".">>, "Waiting after autofight", b, p)
                  ELSE Outcome(<<"o">>, "Auto-explore", b, p))
            ELSE IF health = 0 /\ max_health = 0
            THEN [none |-> FALSE, command |-> <<"CTRL_R">>, bot |-> bh, parser |-> p]
            ELSE IF max_health > 0
            THEN (IF HealthAtLeast(health, max_health, 60)
                  THEN (IF b.last_action_sent = Tab
                        THEN Outcome(<<".">>, "Waiting after autofight", bh, p)
                        ELSE Outcome(<<"o">>, "Auto-explore (health)", bh, p))
                  ELSE Outcome(<<"5">>, "Resting to recover (health)", bh, p))
            ELSE Outcome(<<"o">>, "Auto-explore (health unknown)", bh, p)

(* The legacy _decide_action (bot.py) after state_tracker.update.          *)
LegacyDecision(b, p, trk, f) ==
    LET current_level == p.experience_level
        new_level == extract_level_from_message(f)
        more == "--more--" \in f.texts
    IN  IF /\ "Increase (S)trength" \in f.texts
           /\ current_level # 0
           /\ current_level > b.last_attribute_increase_level
        THEN Outcome(<<"S">>, "Level-up: Increasing Strength",
                     AttributeAnswered(b, current_level), p)
        ELSE IF /\ has_level_up_message(f)
                /\ new_level # Absent
                /\ new_level[1] # 0
                /\ new_level[1] > b.last_level_up_processed
        THEN (IF more
              THEN Outcome(<<" ">>, "Dismissing level-up --more-- prompt",
                           LevelUpProcessed(b, new_level[1]), p)
              ELSE Outcome(<<".">>, "Level-up processed",
                           LevelUpProcessed(b, new_level[1]), p))
        ELSE IF more
        THEN Outcome(<<" ">>, "Dismissing --more-- prompt", b, p)
        ELSE IF "Done exploring" \in f.texts /\ ~b.waiting_for_goto_prompt
        THEN Outcome(<<"G">>, "Descend to next level (Done exploring)",
                     [b EXCEPT !.goto_target_level = p.dungeon_level + 1,
                               !.waiting_for_goto_prompt = TRUE], p)
        ELSE IF b.waiting_for_goto_prompt
        THEN Outcome(DecStr(b.goto_target_level), "Descending to dungeon level",
                     [b EXCEPT !.waiting_for_goto_prompt = FALSE], p)
        ELSE IF in_menu_state(trk, f)
        THEN Outcome(<<".">>, "Waiting in menu", b, p)
        ELSE LegacyGameplay(b, p, trk, f)

-----------------------------------------------------------------------------
(* CharacterCreationStateMachine                                           *)
(* (state_machines/char_creation_state_machine.py)                         *)

MaxMenuMarks == 1
MaxUpdates == 4

(* A frame is described by the transition patterns its text matches: a     *)
(* mark names a pattern, and the three regular expressions of the gameplay *)
(* pattern ("hp", "ac", "ev") are marked one by one.  "other" is text no   *)
(* pattern looks for; the empty text has no mark.                          *)
HudMarks == {"hp", "ac", "ev"}

MenuMarks ==
    {"species", "class", "background", "skills", "abilities", "difficulty",
     "startup"}

(* the frames of the model: any of the HUD markers, with at most           *)
(* MaxMenuMarks of the other marks                                         *)
Frames ==
    { H \cup M : H \in SUBSET HudMarks,
                 M \in {N \in SUBSET (MenuMarks \cup {"other"}) :
                            Cardinality(N) <= MaxMenuMarks} }

CreationStates ==
    {"startup", "species", "class_select", "background", "skills",
     "abilities", "difficulty", "confirmation", "gameplay", "error"}

(* the keys of transition_patterns in the order _build_patterns lists them *)
PatternOrder ==
    <<"gameplay", "species", "class", "background", "skills", "abilities",
      "difficulty", "startup">>

AnyHudMarker(F) == HudMarks \cap F # {}

(* match_all = True: every one of the three patterns is found              *)
AllHudMarkers(F) == HudMarks \subseteq F

(* MenuTransitionPattern.matches for the pattern of a target               *)
Matches(target, F) ==
    IF target = "gameplay" THEN AllHudMarkers(F) ELSE target \in F

(* the target of the first pattern that matches, Absent when none does     *)
FirstMatch(F) ==
    LET hits == SelectSeq(PatternOrder, LAMBDA t : Matches(t, F))
    IN  IF hits = <<>> THEN Absent ELSE <<hits[1]>>

(* the states _trigger_transition sends a gameplay event from              *)
GameplaySources ==
    {"species", "class_select", "background", "skills", "abilities",
     "difficulty", "confirmation"}

TriggerOrError(state, target) ==
    CASE target = "species" /\ state = "startup" -> "species"
      [] target = "class" /\ state = "species" -> "class_select"
      [] target = "background" /\ state \in {"species", "class_select"} -> "background"
      [] target = "skills" /\ state \in {"class_select", "background"} -> "skills"
      [] target = "abilities" /\ state \in {"background", "skills"} -> "abilities"
      [] target = "difficulty" /\ state \in {"background", "skills", "abilities"}
            -> "difficulty"
      [] target = "gameplay" /\ state \in GameplaySources -> "gameplay"
      [] target = "startup" /\ state = "startup" -> state
      [] OTHER -> "error"

(* _trigger_transition(target_state): the state after the event it sends,  *)
(* the state itself where it sends none                                    *)
TriggerTransition(state, target) ==
    CASE target = "species" /\ state = "startup" -> "species"
      [] target = "class" /\ state = "species" -> "class_select"
      [] target = "background" /\ state \in {"species", "class_select"} -> "background"
      [] target = "skills" /\ state \in {"class_select", "background"} -> "skills"
      [] target = "abilities" /\ state \in {"background", "skills"} -> "abilities"
      [] target = "difficulty" /\ state \in {"background", "skills", "abilities"}
            -> "difficulty"
      [] target = "gameplay" /\ state \in GameplaySources -> "gameplay"
      [] OTHER -> state

LeaveGameplay(state, F) ==
    IF FirstMatch(F) = Absent THEN state
    ELSE IF FirstMatch(F)[1] = "startup" THEN "startup"
    ELSE TriggerTransition(state, FirstMatch(F)[1])

UnmatchedIsError(state) == "error"

(* no pattern matched: the for loop of _process_screen ends without a      *)
(* transition                                                              *)
Unmatched(state) == state

(* the for loop of _process_screen                                         *)
MatchAndTrigger(state, F) ==
    IF FirstMatch(F) = Absent THEN Unmatched(state)
    ELSE TriggerTransition(state, FirstMatch(F)[1])

(* the early return of _process_screen in gameplay                         *)
StayInGameplay(state, F) == state

(* _process_screen                                                         *)
ProcessScreen(state, F) ==
    IF state = "gameplay" THEN StayInGameplay(state, F)
    ELSE MatchAndTrigger(state, F)

max_stuck_threshold == 3

(* the machine after __init__; last_state None is "None"; state_history is *)
(* a log nothing reads and is left out                                     *)
InitCreation ==
    [state |-> "startup", screen_text |-> {}, stuck_count |-> 0, last_state |-> "None"]

(* update(screen_text), which returns the state of the machine after it    *)
Update(m, F) ==
    LET after == ProcessScreen(m.state, F)
    IN  [state |-> after,
         screen_text |-> F,
         stuck_count |-> IF m.last_state = m.state THEN m.stuck_count + 1 ELSE 0,
         last_state |-> after]

is_stuck(m) == m.stuck_count >= max_stuck_threshold

in_gameplay(m) == m.state = "gameplay"

(* reset()                                                                 *)
Reset(m) == [m EXCEPT !.state = "startup", !.stuck_count = 0]

-----------------------------------------------------------------------------
(* The engine-based _decide_action (src/bot.py)                            *)

(* the fields of the DecisionContext dataclass; none has a default         *)
ContextFields ==
    {"output", "health", "max_health", "level", "dungeon_level",
     "enemy_detected", "enemy_name", "items_on_ground", "in_shop",
     "in_inventory_screen", "in_item_pickup_menu", "in_menu",
     "equip_slot_pending", "quaff_slot_pending", "has_level_up",
     "has_more_prompt", "attribute_increase_prompt", "save_game_prompt",
     "last_action_sent", "last_level_up_processed",
     "last_attribute_increase_level", "last_equipment_check",
     "last_inventory_refresh", "move_count", "has_gameplay_indicators",
     "gameplay_started", "goto_state", "goto_target_level"}

(* the keyword arguments _prepare_decision_context passes to it            *)
PreparedKeywords == ContextFields \cup {"enemy_direction"}

(* the dataclass constructor raises TypeError for an unexpected or a       *)
(* missing keyword                                                         *)
ContextRaises == PreparedKeywords # ContextFields

Flag(name, holds) == IF holds THEN {name} ELSE {}

(* The context _prepare_decision_context computes.  The screens of the     *)
(* model show no shop, pickup menu or save prompt;                         *)
(* the bot never calls state_tracker.update, so in_menu_state() sees an    *)
(* empty last_screen.                                                      *)
PreparedContext(b, p, trk, f) ==
    MakeContext(
        Flag("enemy_detected", "enemy in range" \in f.texts)
        \cup Flag("items_on_ground", b.items_on_ground)
        \cup Flag("in_inventory_screen", f.inv # <<>>)
        \cup Flag("in_menu", trk = "in_menu")
        \cup Flag("equip_slot_pending", b.equip_slot # Absent)
        \cup Flag("quaff_slot_pending", b.quaff_slot # Absent)
        \cup Flag("has_level_up", has_level_up_message(f))
        \cup Flag("has_more_prompt", "--more--" \in f.texts)
        \cup Flag("attribute_increase_prompt", "Increase (S)trength" \in f.texts)
        \cup Flag("has_gameplay_indicators",
                  (p.health > 0 \/ b.last_known_health > 0) /\ p.experience_level > 0)
        \cup Flag("gameplay_started", b.gameplay_started)
        \cup Flag("last_action_tab", b.last_action_sent = Tab),
        <<p.health, p.max_health>>, p.experience_level,
        b.last_level_up_processed, b.last_attribute_increase_level,
        p.dungeon_level, b.goto_state, b.goto_target_level)

ReturnWhenNone(b, p) == [none |-> TRUE, command |-> NoCommand, bot |-> b, parser |-> p]

(* the fallback of _decide_action when the engine returned None            *)
ExploreWhenNone(b, p) == Outcome(<<"o">>, "Auto-explore (no rule matched)", b, p)

(* The try block of _decide_action and its except branch: raises is        *)
(* whether _prepare_decision_context raised, rs and c are the rules of     *)
(* the engine and the context it is evaluated on.                          *)
DecideAction(b, p, raises, rs, c) ==
    IF raises
    THEN Outcome(<<"o">>, "Auto-explore (engine error fallback)", b, p)
    ELSE LET r == decide(rs, c)
         IN  IF ~r.none THEN Outcome(r.command, r.reason, b, p)
             ELSE ExploreWhenNone(b, p)

(* _decide_action(output): the calls of _prepare_decision_context that     *)
(* change state (parse_output, _detect_items_on_ground,                    *)
(* _check_and_handle_inventory_state), then the engine.                    *)
EngineDecision(b0, p0, trk, f) ==
    LET p1 == parse_output(p0, f)
        items == DetectItemsOnGround(b0, f)
        b1 == [items.bot EXCEPT !.items_on_ground = items.found]
        inInventory == f.inv # <<>>
        p == IF inInventory THEN parse_inventory_screen(p1, f) ELSE p1
        b == IF inInventory
             THEN [b1 EXCEPT !.in_inventory_screen = TRUE,
                             !.action_reason = "Exiting inventory screen"]
             ELSE b1
    IN  DecideAction(b, p, ContextRaises, DefaultRules, PreparedContext(b, p, trk, f))

-----------------------------------------------------------------------------
(* History of the run                                                      *)

Levels == 1..MaxLevel

InitHist ==
    [attr_level |-> 0, attr_turns |-> 0, attr_answers |-> 0,
     msg_frames |-> [n \in Levels |-> 0],
     acks |-> [n \in Levels |-> 0],
     passed |-> [n \in Levels |-> FALSE],
     late |-> FALSE, relapse |-> FALSE,
     failed_at |-> Absent, commands |-> 0, silent_run |-> 0,
     updates |-> 0, unchanged_run |-> 0, enemy_flag |-> Absent]

Capped(n) == IF n > 2 THEN 2 ELSE n

LevelUpReasons == {"Dismissing level-up --more-- prompt", "Level-up processed"}

(* the decision d is the level-up dismiss/acknowledge action               *)
IsLevelUpAction(d) ==
    /\ d.bot.action_reason \in LevelUpReasons
    /\ d.command \in {<<" ">>, <<".">>}

(* attr_level, attr_turns, attr_answers: the level of the current run of   *)
(* consecutive turns that show the attribute prompt at an unchanged level  *)
(* (0 outside such a run), the number of its turns and the number of 'S'   *)
(* sent in it; msg_frames[n], acks[n]: the number of turns that showed     *)
(* level n's level-up message and the number of those that triggered the   *)
(* level-up action; passed[n]: some turn showed level n's message and was  *)
(* answered neither by the level-up action nor by 'S'; late: some turn     *)
(* triggered the level-up action without being the first turn to show that *)
(* level's message; relapse: some turn triggered it after a turn counted   *)
(* in passed.  These counters are counted up to 2.  failed_at: the move    *)
(* count of the latest turn whose screen reported a failed grab; commands: *)
(* the number of commands the loop has sent; silent_run: the number of     *)
(* commands, counted back from the latest, that each got no response or a  *)
(* response equal to the screen before it (counted up to                   *)
(* max_unchanged_screens).  updates: the number of updates of the          *)
(* state machine a specification runs by itself; unchanged_run: the number *)
(* of those, counted back from the latest, that each left its state        *)
(* unchanged; enemy_flag: the enemy_nearby keyword of the latest update of *)
(* the GameStateMachine, Absent when it had none.                          *)
HistAfter(h, f, level, d) ==
    LET shows == "Increase (S)trength" \in f.texts
        same == shows /\ h.attr_level = level
        answered == IF d.command = <<"S">> THEN 1 ELSE 0
        msg == f.levelup # Absent
        trig == msg /\ IsLevelUpAction(d)
    IN  [attr_level |-> IF shows THEN level ELSE 0,
         attr_turns |-> IF shows THEN Capped((IF same THEN h.attr_turns ELSE 0) + 1) ELSE 0,
         attr_answers |-> IF shows THEN Capped((IF same THEN h.attr_answers ELSE 0) + answered)
                          ELSE 0,
         msg_frames |-> IF msg THEN [h.msg_frames EXCEPT ![f.levelup[1]] = Capped(@ + 1)]
                        ELSE h.msg_frames,
         acks |-> IF trig THEN [h.acks EXCEPT ![f.levelup[1]] = Capped(@ + 1)]
                  ELSE h.acks,
         passed |-> IF msg /\ ~trig /\ d.command # <<"S">>
                    THEN [h.passed EXCEPT ![f.levelup[1]] = TRUE]
                    ELSE h.passed,
         late |-> h.late \/ (trig /\ h.msg_frames[f.levelup[1]] >= 1),
         relapse |-> h.relapse \/ (trig /\ h.passed[f.levelup[1]]),
         failed_at |-> IF "Nothing to pick up" \in f.texts
                       THEN <<d.bot.move_count>> ELSE h.failed_at,
         commands |-> h.commands + 1,
         silent_run |-> h.silent_run,
         updates |-> h.updates,
         unchanged_run |-> h.unchanged_run,
         enemy_flag |-> h.enemy_flag]

(* the history after the read that follows a command                       *)
HistSilent(h, silent) ==
    [h EXCEPT !.silent_run = IF ~silent THEN 0
                             ELSE IF @ < max_unchanged_screens THEN @ + 1 ELSE @]

-----------------------------------------------------------------------------
(* The loop of run(max_steps); bot.max_steps is the argument of run.       *)

(* what the last call of a helper returned and the move count at the call  *)
NotCalled == [call |-> "(none)", none |-> TRUE, command |-> NoCommand, at |-> 0]

(* the screens the legacy bot is run on                                    *)
NoHud == [xl |-> Absent, depth |-> Absent, hp |-> Absent, mp |-> Absent, next |-> Absent]

Hud(x, d, h) == [xl |-> <<x>>, depth |-> <<d>>, hp |-> <<h>>, mp |-> Absent, next |-> Absent]

Huds == {NoHud, Hud(1, 1, <<71, 100>>), Hud(MaxLevel, 1, <<59, 100>>),
         Hud(MaxLevel, MaxDepth, <<71, 100>>)}

Screen(T, lu, hud, dir, lines) ==
    [texts |-> T, levelup |-> lu, xl |-> hud.xl, depth |-> hud.depth,
     hp |-> hud.hp, mp |-> hud.mp, next |-> hud.next, toward |-> dir, inv |-> lines]

OptionalLevels == {Absent} \cup { <<n>> : n \in Levels }

WhileInclusive(b) == b.move_count <= b.max_steps

(* while self.move_count < max_steps                                       *)
WhileCondition(b) == b.move_count < b.max_steps

(* read_output_stable at the top of the loop returned output, which left   *)
(* the screen buffer showing f                                             *)
ReadOutput(f) ==
    /\ phase = "loop"
    /\ WhileCondition(bot)
    /\ ~IsEmpty(f)
    /\ screen' = f
    /\ parser' = parse_output(parser, f)
    /\ bot' = [bot EXCEPT !.consecutive_no_output = 0]
    /\ phase' = IF is_game_over(f) THEN "ended" ELSE "decide"
    /\ UNCHANGED <<startvars, enginevars, tracker, sent, returned, hist>>

(* read_output_stable returned nothing: the decision uses the buffer       *)
NoOutput ==
    /\ phase = "loop"
    /\ WhileCondition(bot)
    /\ bot' = [bot EXCEPT !.consecutive_no_output = @ + 1]
    /\ phase' = "decide"
    /\ UNCHANGED <<startvars, enginevars, parser, tracker, screen, sent, returned, hist>>

(* the while condition is false                                            *)
LoopExit ==
    /\ phase = "loop"
    /\ ~WhileCondition(bot)
    /\ phase' = "ended"
    /\ UNCHANGED <<startvars, enginevars, botvars>>

(* if action: send it, else send the wait command '.'                      *)
Send(d, trk) ==
    /\ bot' = [d.bot EXCEPT !.action = d.command,
                            !.last_action_sent = IF d.command # NoCommand THEN d.command ELSE @,
                            !.move_count = @ + 1]
    /\ sent' = IF d.command # NoCommand THEN d.command ELSE <<".">>
    /\ parser' = d.parser
    /\ tracker' = trk
    /\ hist' = HistAfter(hist, screen, parser.experience_level, d)
    /\ phase' = "respond"
    /\ UNCHANGED <<startvars, enginevars, screen, returned>>

(* the legacy bot: action = self._decide_action(screen_for_decision); an   *)
(* exception of state_tracker.update leaves run                            *)
LegacyDecide ==
    /\ phase = "decide"
    /\ LET u == TrackerUpdate(tracker, screen)
       IN  IF u.raised
           THEN /\ phase' = "crashed"
                /\ UNCHANGED <<startvars, enginevars, botvars>>
           ELSE Send(LegacyDecision(bot, parser, u.state, screen), u.state)

(* the engine-based bot                                                    *)
EngineDecide ==
    /\ phase = "decide"
    /\ Send(EngineDecision(bot, parser, tracker, screen), tracker)

(* the two breaks at the end of an iteration                               *)
AfterIteration(b) ==
    IF b.unchanged_screen_count >= max_unchanged_screens THEN "ended"
    ELSE IF b.consecutive_no_output > max_consecutive_no_output THEN "ended"
    ELSE "loop"

(* the read after the command returned nothing                             *)
NoResponse ==
    /\ phase = "respond"
    /\ bot' = [bot EXCEPT !.unchanged_screen_count = @ + 1]
    /\ phase' = AfterIteration(bot')
    /\ hist' = HistSilent(hist, TRUE)
    /\ UNCHANGED <<startvars, enginevars, parser, tracker, screen, sent, returned>>

(* the read after the command returned r.  After a decided action the      *)
(* buffer is updated; after the default wait the response is compared with *)
(* the last screen and only parsed.                                        *)
Response(r) ==
    /\ phase = "respond"
    /\ ~IsEmpty(r)
    /\ parser' = parse_output(parser, r)
    /\ IF bot.action # NoCommand
       THEN /\ screen' = r
            /\ bot' = [bot EXCEPT !.consecutive_no_output = 0]
       ELSE /\ screen' = screen
            /\ bot' = [bot EXCEPT !.unchanged_screen_count = IF r = screen THEN @ + 1 ELSE 0]
    /\ phase' = AfterIteration(bot')
    /\ hist' = HistSilent(hist, r = screen)
    /\ UNCHANGED <<startvars, enginevars, tracker, sent, returned>>

-----------------------------------------------------------------------------
(* The session-protocol helpers of the engine-based bot                    *)

LastSlot(untested) == untested[Len(untested)].slot

(* slot = next(iter(untested))                                             *)
FirstSlot(untested) == untested[1].slot

Called(call, command) ==
    [call |-> call, none |-> FALSE, command |-> command, at |-> bot.move_count]

CalledNone(call) ==
    [call |-> call, none |-> TRUE, command |-> NoCommand, at |-> bot.move_count]

(* _identify_untested_potions()                                            *)
IdentifyUntestedPotions ==
    /\ phase = "loop"
    /\ LET untested == parser.untested_potions
       IN  IF untested = <<>>
           THEN /\ returned' = CalledNone("_identify_untested_potions")
                /\ bot' = bot
           ELSE /\ bot' = [bot EXCEPT !.quaff_slot = <<FirstSlot(untested)>>,
                                      !.action_reason = "Quaffing potion to identify"]
                /\ returned' = Called("_identify_untested_potions", <<"q">>)
    /\ UNCHANGED <<phase, startvars, enginevars, parser, tracker, screen, sent, hist>>

(* _find_and_equip_better_armor()                                          *)
FindAndEquipBetterArmor ==
    /\ phase = "loop"
    /\ LET better_armor == find_better_armor(parser)
       IN  IF better_armor = Absent
           THEN /\ returned' = CalledNone("_find_and_equip_better_armor")
                /\ bot' = bot
           ELSE IF better_armor[1].ac_value < -2
           THEN /\ bot' = [bot EXCEPT !.equip_slot = <<better_armor[1].slot>>,
                                      !.action_reason = "Equipping better armor"]
                /\ returned' = Called("_find_and_equip_better_armor", <<"e">>)
           ELSE /\ returned' = CalledNone("_find_and_equip_better_armor")
                /\ bot' = bot
    /\ UNCHANGED <<phase, startvars, enginevars, parser, tracker, screen, sent, hist>>

(* _refresh_inventory()                                                    *)
RefreshInventory ==
    /\ phase = "loop"
    /\ bot' = [bot EXCEPT !.in_inventory_screen = TRUE,
                          !.last_inventory_refresh = bot.move_count,
                          !.action_reason = "Refreshing inventory display"]
    /\ returned' = Called("_refresh_inventory", <<"i">>)
    /\ UNCHANGED <<phase, startvars, enginevars, parser, tracker, screen, sent, hist>>

(* the bot before run enters its loop                                      *)
BotIdle ==
    /\ bot = InitBot
    /\ parser = InitParser
    /\ tracker = InitTracker
    /\ screen = Blank
    /\ sent = NoCommand
    /\ returned = NotCalled
    /\ hist = InitHist
    /\ creation = InitCreation
    /\ game = InitGame
-----------------------------------------------------------------------------
(* Calling decide: a hand-built engine on a fixed context, and the default *)
(* engine on a context drawn from a bounded set.                           *)

HealthPairs == { <<0, 0>>, <<59, 100>>, <<60, 100>>, <<70, 100>>, <<71, 100>> }

FlagSets == {F \in SUBSET FlagNames : Cardinality(F) <= MaxFlags}

BaseContext ==
    MakeContext({"has_gameplay_indicators", "gameplay_started"},
                <<71, 100>>, 1, 0, 0, 1, "None", 0)

(* The hand-built rules: RuleChoices are the priority and lambdas a rule   *)
(* may have; the rule added i-th is named RuleNames[i].                    *)
RuleChoices ==
    { [priority |-> p, cond |-> sh[1], act |-> sh[2]] :
        p \in PriorityValues, sh \in RuleShapes }

NamedRule(choice, i) ==
    [name |-> RuleNames[i], priority |-> choice.priority,
     cond |-> choice.cond, act |-> choice.act]

InitDecide ==
    /\ phase = "ready"
    /\ \E n \in 0..MaxRules : \E f \in [1..n -> RuleChoices] :
          rules = [i \in 1..n |-> NamedRule(f[i], i)]
    /\ ctx = BaseContext
    /\ result = NotDecided
    /\ BotIdle

(* The contexts the default engine is called on.  The dedupe counters are  *)
(* drawn as "this level already processed" (equal to the level) or "not    *)
(* yet" (one below it).                                                    *)
InitEngine ==
    /\ phase = "ready"
    /\ rules = DefaultRules
    /\ \E F \in FlagSets, hp \in HealthPairs, lvl \in Levels, g \in GotoStates :
          \E ll \in {lvl - 1, lvl}, la \in {lvl - 1, lvl} :
              ctx = MakeContext(F, hp, lvl, ll, la, 1, g, MaxTarget)
    /\ result = NotDecided
    /\ BotIdle

InitGoto ==
    /\ phase = "ready"
    /\ rules = DefaultRules
    /\ \E F \in FlagSets, hp \in {<<0, 0>>, <<59, 100>>, <<71, 100>>},
          g \in GotoStates, t \in 0..MaxTarget :
              ctx = MakeContext(F, hp, 1, 0, 0, 1, g, t)
    /\ result = NotDecided
    /\ BotIdle

(* command, reason = engine.decide(context)                                *)
DecideStep ==
    /\ phase = "ready"
    /\ result' = decide(rules, ctx)
    /\ phase' = "decided"
    /\ UNCHANGED <<rules, ctx, botvars, startvars>>

NextEngine == DecideStep

SpecDecide == InitDecide /\ [][NextEngine]_vars

SpecEngine == InitEngine /\ [][NextEngine]_vars

SpecGoto == InitGoto /\ [][NextEngine]_vars


-----------------------------------------------------------------------------
(* The two bots run on bounded sets of screens.                            *)

PhraseSets == {T \in SUBSET Phrases : Cardinality(T) <= MaxTexts}

(* the key _find_direction_to_enemy computes from the map: the enemies of  *)
(* the model stand to the left of the player                               *)
Toward(T) == IF "enemy in range" \in T THEN "h" ELSE "."

InitRun ==
    /\ phase = "loop"
    /\ rules = DefaultRules
    /\ ctx = BaseContext
    /\ result = NotDecided
    /\ BotIdle

(* a screen of at most MaxTexts phrases and messages, with or without the  *)
(* status lines                                                            *)
LegacyReadOutput ==
    \E T \in PhraseSets, lu \in OptionalLevels, hud \in Huds :
        /\ Cardinality(T) + Len(lu) <= MaxTexts
        /\ ReadOutput(Screen(T, lu, hud, Toward(T), <<>>))

LegacyResponse ==
    \E T \in PhraseSets, lu \in OptionalLevels, hud \in Huds :
        /\ Cardinality(T) + Len(lu) <= MaxTexts
        /\ Response(Screen(T, lu, hud, Toward(T), <<>>))

NextLegacy ==
    \/ LegacyReadOutput
    \/ NoOutput
    \/ LegacyDecide
    \/ LegacyResponse
    \/ NoResponse
    \/ LoopExit

SpecLegacy == InitRun /\ [][NextLegacy]_vars

(* the screens the engine-based bot is run on: a game screen, or an        *)
(* inventory screen of at most MaxLines lines                              *)
BotPhrases == {{}, {"Done exploring"}, {"You die"}}

BotHuds == {NoHud, Hud(MaxLevel, MaxDepth, <<71, 100>>)}

GameScreens == { Screen(T, Absent, hud, ".", <<>>) : T \in BotPhrases, hud \in BotHuds } \ {Blank}

(* the lines of an inventory screen name each slot once                    *)
InventoryScreens ==
    { Screen({}, Absent, NoHud, ".", lines) :
        lines \in { ls \in UNION { [1..n -> InventoryLines] : n \in 1..MaxLines } :
                      \A i, j \in 1..Len(ls) : ls[i].slot = ls[j].slot => i = j } }

BotScreens == GameScreens \cup InventoryScreens

BotReadOutput == \E f \in BotScreens : ReadOutput(f)

BotResponse == \E f \in BotScreens : Response(f)

NextBot ==
    \/ BotReadOutput
    \/ NoOutput
    \/ EngineDecide
    \/ BotResponse
    \/ NoResponse
    \/ LoopExit
    \/ IdentifyUntestedPotions
    \/ FindAndEquipBetterArmor

SpecBot == InitRun /\ [][NextBot]_vars

-----------------------------------------------------------------------------
(* Properties of decide                                                    *)

RuleIndex == 1..Len(rules)

(* rule i's condition is true for ctx and its action returns               *)
Yields(i) ==
    /\ RuleCondition(rules[i], ctx) = "true"
    /\ ~RuleAction(rules[i], ctx).raised

(* decide returned what rule i's action returns                            *)
ReturnedBy(i) ==
    /\ ~result.none
    /\ Yields(i)
    /\ result = RuleAction(rules[i], ctx).value

(* C1 as stated: whenever the action of a rule R is returned, no rule with *)
(* a strictly smaller priority value has a true condition.                 *)
C1_Original ==
    phase = "decided" =>
        \A i \in RuleIndex : ReturnedBy(i) =>
            \A j \in RuleIndex :
                rules[j].priority < rules[i].priority =>
                    RuleCondition(rules[j], ctx) # "true"

(* C1, amended: whenever decide returns a command it is the result of a    *)
(* rule R whose condition is true, and no rule with a strictly smaller     *)
(* priority value has a true condition and an action that returns (a rule  *)
(* whose action raises is skipped); decide returns None only when no rule  *)
(* has a true condition and an action that returns.                        *)
C1_FirstByPriority ==
    phase = "decided" =>
        /\ ~result.none =>
              \E i \in RuleIndex :
                  /\ ReturnedBy(i)
                  /\ \A j \in RuleIndex :
                        rules[j].priority < rules[i].priority => ~Yields(j)
        /\ result.none => \A j \in RuleIndex : ~Yields(j)

(* A rule added later but of smaller priority value supplied the result    *)
(* although an earlier-added rule also had a true condition.               *)
C1_Witness ==
    /\ phase = "decided"
    /\ \E i, j \in RuleIndex :
          /\ j < i
          /\ rules[i].priority < rules[j].priority
          /\ Yields(j)
          /\ ReturnedBy(i)

HighCondition ==
    ctx.in_shop \/ ctx.in_item_pickup_menu \/ ctx.in_inventory_screen \/ ctx.in_menu

UrgentCondition ==
    (ctx.has_level_up /\ ctx.level > ctx.last_level_up_processed) \/ ctx.items_on_ground

NoCriticalCondition ==
    /\ ~ctx.equip_slot_pending
    /\ ~ctx.quaff_slot_pending
    /\ ~(ctx.attribute_increase_prompt /\ ctx.level > ctx.last_attribute_increase_level)
    /\ ~ctx.save_game_prompt
    /\ ~ctx.has_more_prompt
    /\ ~(ctx.health = 0 /\ ctx.max_health = 0)

(* C2 as stated: with no CRITICAL rule applying and both a HIGH-band and   *)
(* an URGENT-band condition holding, the HIGH-band rule's command is       *)
(* returned.                                                               *)
C2_Original ==
    (phase = "decided" /\ NoCriticalCondition /\ HighCondition /\ UrgentCondition) =>
        result.command =
            (IF ctx.in_shop THEN <<"ESC">>
             ELSE IF ctx.in_item_pickup_menu \/ ctx.in_inventory_screen THEN NoCommand
             ELSE <<".">>)

(* C2, amended: the bands are evaluated in the order CRITICAL, URGENT,     *)
(* HIGH, NORMAL, LOW: with no CRITICAL rule applying and both a HIGH-band  *)
(* and an URGENT-band condition holding, the URGENT-band rule's command is *)
(* returned ('.' for an unprocessed level-up, else 'g' for items on the    *)
(* ground).                                                                *)
C2_UrgentBeforeHigh ==
    (phase = "decided" /\ NoCriticalCondition /\ HighCondition /\ UrgentCondition) =>
        /\ ~result.none
        /\ result.command =
              (IF ctx.has_level_up /\ ctx.level > ctx.last_level_up_processed
               THEN <<".">> ELSE <<"g">>)

C2_Witness ==
    /\ phase = "decided"
    /\ NoCriticalCondition
    /\ ctx.in_shop
    /\ ctx.items_on_ground
    /\ ~ctx.has_level_up
    /\ result.command = <<"g">>

EarlierCriticalCondition ==
    \/ ctx.equip_slot_pending
    \/ ctx.quaff_slot_pending
    \/ (ctx.attribute_increase_prompt /\ ctx.level > ctx.last_attribute_increase_level)
    \/ ctx.save_game_prompt

CombatReasons ==
    {"Moving toward enemy to engage (low health)", "Autofight - enemy in range"}

(* C3 as stated: with has_more_prompt and enemy_detected both true the     *)
(* engine returns ' '.                                                     *)
C3_Original ==
    (phase = "decided" /\ ctx.has_more_prompt /\ ctx.enemy_detected) =>
        result.command = <<" ">>

(* C3, amended: with has_more_prompt and enemy_detected both true the      *)
(* engine never returns the result of a combat rule (autofight or the move *)
(* toward the enemy), and it returns the prompt dismissal ' ' unless one   *)
(* of the CRITICAL rules added before the more-prompt rule applies (a      *)
(* pending equip or quaff slot, an unprocessed attribute-increase prompt,  *)
(* or a save-game prompt).                                                 *)
C3_MoreBeforeCombat ==
    (phase = "decided" /\ ctx.has_more_prompt /\ ctx.enemy_detected) =>
        /\ ~result.none
        /\ result.reason \notin CombatReasons
        /\ result.command # Tab
        /\ result.command # <<"l">>
        /\ ~EarlierCriticalCondition => result.command = <<" ">>

C3_Witness ==
    /\ phase = "decided"
    /\ ctx.has_more_prompt
    /\ ctx.enemy_detected
    /\ ~EarlierCriticalCondition
    /\ result = Returned(<<" ">>, "Dismissing --more-- prompt")


-----------------------------------------------------------------------------
(* Goto responses of the default engine                                    *)

DigitValue(ch) == CHOOSE d \in 0..9 : Digits[d + 1] = ch

RECURSIVE DecimalValue(_)
(* The number a non-empty sequence of decimal digits denotes.              *)
DecimalValue(cmd) ==
    IF Len(cmd) = 1 THEN DigitValue(cmd[1])
    ELSE 10 * DecimalValue(SubSeq(cmd, 1, Len(cmd) - 1)) + DigitValue(cmd[Len(cmd)])

(* cmd is the decimal string of the natural number n                       *)
IsDecimalOf(cmd, n) ==
    /\ Len(cmd) >= 1
    /\ \A k \in 1..Len(cmd) : \E d \in 0..9 : Digits[d + 1] = cmd[k]
    /\ (Len(cmd) > 1 => cmd[1] # "0")
    /\ DecimalValue(cmd) = n

(* No rule evaluated before the goto rules applies: none of the CRITICAL,  *)
(* URGENT and HIGH bands, and neither combat rule.                         *)
NothingBeforeGoto ==
    /\ NoCriticalCondition
    /\ ~HighCondition
    /\ ~UrgentCondition
    /\ ~ctx.enemy_detected

(* C7: with no higher-priority condition active the default engine returns *)
(* 'D' when goto_state is awaiting_location_type and the decimal string of *)
(* goto_target_level when it is awaiting_level_number; in neither state    *)
(* does it return the explore command 'o'.                                 *)
C7_GotoResponses ==
    (phase = "decided" /\ NothingBeforeGoto) =>
        /\ ctx.goto_state = "awaiting_location_type" => result.command = <<"D">>
        /\ ctx.goto_state = "awaiting_level_number" =>
              IsDecimalOf(result.command, ctx.goto_target_level)
        /\ ctx.goto_state # "None" => (~result.none /\ result.command # <<"o">>)

C7_Witness ==
    /\ phase = "decided"
    /\ NothingBeforeGoto
    /\ ctx.goto_state = "awaiting_level_number"
    /\ ctx.goto_target_level = 10
    /\ ctx.has_gameplay_indicators
    /\ result.command = <<"1", "0">>


-----------------------------------------------------------------------------
(* Properties of the run loop and of the session-protocol helpers          *)

(* a loop iteration decides and sends its command                          *)
Turn == phase = "decide" /\ phase' = "respond"

(* C4: across any run of consecutive turns that show the attribute-        *)
(* increase prompt while the character's level is unchanged, the command   *)
(* 'S' is issued on at most one of those turns.                            *)
C4_AttributeOncePerLevel == hist.attr_answers <= 1

(* the second turn of such a run: 'S' went out on the first, not again     *)
C4_Witness ==
    /\ phase = "respond"
    /\ "Increase (S)trength" \in screen.texts
    /\ hist.attr_turns = 2
    /\ hist.attr_answers = 1
    /\ sent # <<"S">>

(* C5 as stated: for each level only the first frame showing that level's  *)
(* level-up message triggers the dismiss/acknowledge action.               *)
C5_Original == ~hist.late

(* C5: for each character level at most one frame showing that level's     *)
(* level-up message triggers the dismiss/acknowledge action, and it is the *)
(* first such frame that is not answered by the attribute choice 'S':      *)
(* later frames that still show the message do not trigger it again.       *)
C5_LevelUpOncePerLevel ==
    /\ \A n \in Levels : hist.acks[n] <= 1
    /\ ~hist.relapse

(* a second frame with the message of a level whose first frame triggered  *)
(* the action, answered by another decision                                *)
C5_Witness ==
    /\ phase = "respond"
    /\ screen.levelup # Absent
    /\ hist.msg_frames[screen.levelup[1]] = 2
    /\ hist.acks[screen.levelup[1]] = 1
    /\ bot.action_reason \notin LevelUpReasons
    /\ ~hist.late

(* C6 as stated: exploration-complete text at depth d with goto state none *)
(* sets the goto state to awaiting_location_type with target d + 1; the    *)
(* next turn sends the branch-select key 'D' and moves to                  *)
(* awaiting_level_number; the turn after sends the decimal string of the   *)
(* target and returns the state to none.                                   *)
C6_Original ==
    [][Turn =>
        /\ ("Done exploring" \in screen.texts /\ bot.goto_state = "None")
              => /\ bot'.goto_state = "awaiting_location_type"
                 /\ bot'.goto_target_level = parser.dungeon_level + 1
        /\ bot.goto_state = "awaiting_location_type"
              => sent' = <<"D">> /\ bot'.goto_state = "awaiting_level_number"
        /\ bot.goto_state = "awaiting_level_number"
              => sent' = DecStr(bot.goto_target_level) /\ bot'.goto_state = "None"]_vars

(* C8 as stated: on the turn after a quaff or equip command was issued     *)
(* with pending slot s, the command sent to the game is the slot letter s. *)
C8_Original ==
    [][(Turn /\ ~returned.none /\ returned.at = bot.move_count) =>
        sent' = (IF returned.call = "_identify_untested_potions"
                 THEN bot.quaff_slot ELSE bot.equip_slot)]_vars

(* a call of a helper: the helpers leave the loop where it is              *)
HelperCall(name) == phase = "loop" /\ phase' = "loop" /\ returned'.call = name

(* C9: when untested_potions is non-empty, potion identification issues    *)
(* the quaff command 'q' and records as pending the first slot in the      *)
(* map's iteration order; when it is empty, no command is issued and the   *)
(* pending slot is left unchanged.                                         *)
C9_QuaffFirstUntested ==
    [][HelperCall("_identify_untested_potions") =>
        IF parser.untested_potions # <<>>
        THEN /\ ~returned'.none
             /\ returned'.command = <<"q">>
             /\ bot'.quaff_slot = <<parser.untested_potions[1].slot>>
        ELSE /\ returned'.none
             /\ bot'.quaff_slot = bot.quaff_slot]_vars

(* two untested potions, slot b seen before slot a: b is the pending slot  *)
C9_Witness ==
    /\ returned.call = "_identify_untested_potions"
    /\ returned.command = <<"q">>
    /\ Len(parser.untested_potions) = 2
    /\ parser.untested_potions[1].slot = "b"
    /\ bot.quaff_slot = <<"b">>

(* C10 as stated: whenever find_better_armor returns a candidate, the      *)
(* equipment-upgrade step issues the equip command 'e' and records the     *)
(* candidate's slot as the pending equip slot; when it returns none the    *)
(* step issues nothing and leaves the pending slot unchanged.              *)
C10_Original ==
    [][HelperCall("_find_and_equip_better_armor") =>
        IF find_better_armor(parser) # Absent
        THEN /\ ~returned'.none
             /\ returned'.command = <<"e">>
             /\ bot'.equip_slot = <<find_better_armor(parser)[1].slot>>
        ELSE /\ returned'.none
             /\ bot'.equip_slot = bot.equip_slot]_vars

-----------------------------------------------------------------------------
(* The loop of run on a game that reports items and failed grabs, for      *)
(* every max_steps up to MaxLoopSteps                                      *)

MaxLoopSteps == 7

LoopPhrases ==
    {{}, {"You see here"}, {"You see here", "corpse"}, {"Nothing to pick up"}}

(* an enemy in range at low health, to the left or to the right of the     *)
(* player: toward is what _calculate_direction_to_enemy computes           *)
EnemyScreens ==
    { Screen({"enemy in range"}, Absent, Hud(1, 1, <<59, 100>>), d, <<>>) : d \in {"h", "l"} }

LoopScreens ==
    { Screen(T, Absent, Hud(1, 1, <<71, 100>>), ".", <<>>) : T \in LoopPhrases }
    \cup EnemyScreens

InitLoop ==
    /\ phase = "loop"
    /\ rules = DefaultRules
    /\ ctx = BaseContext
    /\ result = NotDecided
    /\ \E n \in 1..MaxLoopSteps : bot = [InitBot EXCEPT !.max_steps = n]
    /\ parser = InitParser
    /\ tracker = InitTracker
    /\ screen = Blank
    /\ sent = NoCommand
    /\ returned = NotCalled
    /\ hist = InitHist
    /\ creation = InitCreation
    /\ game = InitGame

LoopReadOutput == \E f \in LoopScreens : ReadOutput(f)

LoopResponse == \E r \in LoopScreens : Response(r)

NextLoop ==
    \/ LoopReadOutput
    \/ NoOutput
    \/ EngineDecide
    \/ LoopResponse
    \/ NoResponse
    \/ LoopExit

SpecLoop == InitLoop /\ [][NextLoop]_vars

-----------------------------------------------------------------------------
(* _decide_action on a prepared context, as the tests call it: the context *)
(* preparation raises or returns ctx, and the engine holds hand-built      *)
(* rules or the default rules.                                             *)

PendingContext ==
    MakeContext({"has_gameplay_indicators", "gameplay_started", "equip_slot_pending"},
                <<71, 100>>, 1, 0, 0, 1, "None", 0)

InitWrapper ==
    /\ phase = "ready"
    /\ \/ \E n \in 0..MaxRules : \E f \in [1..n -> RuleChoices] :
             /\ rules = [i \in 1..n |-> NamedRule(f[i], i)]
             /\ ctx = BaseContext
       \/ /\ rules = DefaultRules
          /\ ctx \in {BaseContext, PendingContext}
    /\ result = NotDecided
    /\ BotIdle

(* action = self._decide_action(output); result keeps what decide returned *)
(* when it was reached                                                     *)
DecideActionStep ==
    /\ phase = "ready"
    /\ \E raises \in BOOLEAN :
          LET d == DecideAction(bot, parser, raises, rules, ctx)
          IN  /\ result' = IF raises THEN NotDecided ELSE decide(rules, ctx)
              /\ returned' = [call |-> "_decide_action", none |-> d.none,
                              command |-> d.command, at |-> bot.move_count]
              /\ bot' = d.bot
    /\ phase' = "decided"
    /\ UNCHANGED <<startvars, rules, ctx, parser, tracker, screen, sent, hist>>

NextWrapper == DecideActionStep

SpecWrapper == InitWrapper /\ [][NextWrapper]_vars

-----------------------------------------------------------------------------
(* The character-creation machine under the calls the bot makes: update on *)
(* a frame and reset                                                       *)

InitCreate ==
    /\ phase = "ready"
    /\ rules = DefaultRules
    /\ ctx = BaseContext
    /\ result = NotDecided
    /\ BotIdle

CreationUpdate ==
    /\ hist.updates < MaxUpdates
    /\ \E F \in Frames : creation' = Update(creation, F)
    /\ hist' = [hist EXCEPT !.updates = @ + 1,
                            !.unchanged_run = IF creation'.state = creation.state
                                              THEN @ + 1 ELSE 0]
    /\ UNCHANGED <<phase, enginevars, bot, parser, tracker, screen, sent, returned, game>>

CreationReset ==
    /\ creation' = Reset(creation)
    /\ hist' = [hist EXCEPT !.unchanged_run = 0]
    /\ UNCHANGED <<phase, enginevars, bot, parser, tracker, screen, sent, returned, game>>

NextCreate == CreationUpdate \/ CreationReset

SpecCreate == InitCreate /\ [][NextCreate]_vars
-----------------------------------------------------------------------------
(* The run loop: grab cooldown, non-response and the step bound            *)

(* C11: after a failed grab is observed at move count m (the screen says   *)
(* there is nothing to pick up), every turn whose move count is less than  *)
(* m + 5 reports items-on-ground false and does not send the grab command. *)
C11_GrabCooldown ==
    [][(/\ Turn
        /\ hist.failed_at # Absent
        /\ bot.move_count < hist.failed_at[1] + 5)
       => (~bot'.items_on_ground /\ sent' # <<"g">>)]_vars

(* A later turn inside the window saw items listed on the ground and       *)
(* reported none.                                                          *)
C11_Witness ==
    /\ phase = "respond"
    /\ hist.failed_at # Absent
    /\ hist.failed_at[1] < bot.move_count - 1
    /\ bot.move_count - 1 < hist.failed_at[1] + 5
    /\ "You see here" \in screen.texts
    /\ "corpse" \notin screen.texts
    /\ ~bot.items_on_ground
    /\ sent = <<"o">>

(* C12 as stated: the read after a command ends the loop exactly when the  *)
(* last 5 commands each got no response or an unchanged screen.            *)
C12_Original ==
    [][(phase = "respond" /\ phase' # "respond")
       => (phase' = "ended" <=> hist'.silent_run >= 5)]_vars

(* C13: the loop sends at most max_steps commands: a turn sends exactly    *)
(* one command and adds exactly one to move_count, and an iteration starts *)
(* only while move_count is below max_steps.                               *)
C13_AtMostMaxSteps ==
    [][/\ Turn => /\ sent' # NoCommand
                  /\ hist'.commands = hist.commands + 1
                  /\ bot'.move_count = bot.move_count + 1
       /\ (phase = "loop" /\ phase' = "decide") => bot.move_count < bot.max_steps
       /\ ~Turn => (hist'.commands = hist.commands /\ bot'.move_count = bot.move_count)
       /\ hist'.commands <= bot'.max_steps]_vars

(* The loop ran to its bound: max_steps commands sent, then left.          *)
C13_Witness ==
    /\ phase = "ended"
    /\ bot.max_steps >= 2
    /\ bot.move_count = bot.max_steps
    /\ hist.commands = bot.max_steps
    /\ bot.unchanged_screen_count < max_unchanged_screens

-----------------------------------------------------------------------------
(* decide and its caller under rules that raise                            *)

(* C14: decide never raises, whatever the rules: a rule whose condition or *)
(* action raises is skipped and the next rule is evaluated, and when no    *)
(* rule yields a result decide returns None with a reason.                 *)
C14_DecideNeverRaises ==
    phase = "decided" =>
        /\ result # Raised
        /\ (\E i \in RuleIndex : Yields(i)) => \E i \in RuleIndex : ReturnedBy(i)
        /\ (\A i \in RuleIndex : ~Yields(i)) => result = NoneResult("No matching rules")

(* A rule that raised was evaluated before the rule that supplied the      *)
(* result.                                                                 *)
C14_Witness ==
    /\ phase = "decided"
    /\ \E i, j \in RuleIndex :
          /\ rules[j].priority < rules[i].priority
          /\ RuleRaises(rules[j], ctx)
          /\ ReturnedBy(i)

-----------------------------------------------------------------------------
(* The character-creation machine                                          *)

(* an update of the machine was the step taken                             *)
Updated == hist'.updates = hist.updates + 1

C17_Original ==
    [][Updated =>
        /\ creation'.state # creation.state => creation'.stuck_count = 0
        /\ is_stuck(creation') => hist'.unchanged_run >= 2]_vars

C19_UnmatchedKeepsState ==
    [][(/\ Updated
        /\ creation'.screen_text # {}
        /\ \A t \in {"species", "class", "background", "skills", "abilities",
                     "difficulty", "startup"} : t \notin creation'.screen_text
        /\ ~({"hp", "ac", "ev"} \subseteq creation'.screen_text))
       => creation'.state = creation.state]_vars

(* Mid-sequence, after an update on a frame that has text and matches no   *)
(* pattern.                                                                *)
C19_Witness ==
    /\ creation.state \in GameplaySources
    /\ hist.unchanged_run >= 1
    /\ creation.screen_text # {}
    /\ FirstMatch(creation.screen_text) = Absent

-----------------------------------------------------------------------------
(* The GameStateMachine under its interface: connect, start_game, reset    *)
(* and update on a frame with or without the context keywords.             *)

(* the keywords of update, each given or not                               *)
GameContexts ==
    [enemy_nearby : {Absent, <<TRUE>>, <<FALSE>>}, health_low : {Absent, <<TRUE>>}]

(* frames with or without a quit phrase, an error phrase, a menu indicator *)
(* and gameplay indicators                                                 *)
GameFrames ==
    { Screen(T, Absent, hud, ".", <<>>) :
        T \in SUBSET {"quit", "error", "please select"},
        hud \in {NoHud, Hud(1, 1, <<71, 100>>)} }

InitGameSpec ==
    /\ phase = "ready"
    /\ rules = DefaultRules
    /\ ctx = BaseContext
    /\ result = NotDecided
    /\ BotIdle

gamevars == <<phase, enginevars, bot, parser, tracker, screen, sent, returned, creation>>

GameUpdateStep ==
    /\ hist.updates < MaxUpdates
    /\ \E f \in GameFrames : \E c \in GameContexts :
          /\ game' = GameUpdate(game, f, c)
          /\ hist' = [hist EXCEPT !.updates = @ + 1, !.enemy_flag = c.enemy_nearby]
    /\ UNCHANGED gamevars

(* state_machine.connect(), state_machine.start_game()                     *)
GameConnect ==
    /\ game' = GameEvent(game, "connect")
    /\ UNCHANGED <<gamevars, hist>>

GameStartGame ==
    /\ game' = GameEvent(game, "start_game")
    /\ UNCHANGED <<gamevars, hist>>

GameResetStep ==
    /\ game' = GameReset(game)
    /\ UNCHANGED <<gamevars, hist>>

NextGame == GameUpdateStep \/ GameConnect \/ GameStartGame \/ GameResetStep

SpecGame == InitGameSpec /\ [][NextGame]_vars

-----------------------------------------------------------------------------
(* The GameStateParser under parse_output on one snapshot after another.   *)

(* a status line as the terminal shows it: the numbers are the digits of   *)
(* the text, whatever they are                                             *)
StatusLine(h, m, x, n) ==
    [xl |-> x, depth |-> Absent, hp |-> h, mp |-> m, next |-> n]

(* snapshots: empty, a message only, or status lines with or without a     *)
(* message                                                                 *)
ParserFrames ==
    { Screen(T, Absent, StatusLine(h, m, x, n), ".", <<>>) :
        T \in {{}, {"--more--"}},
        h \in {Absent, <<<<0, 30>>>>, <<<<20, 30>>>>, <<<<35, 30>>>>},
        m \in {Absent, <<<<3, 5>>>>},
        x \in {Absent, <<2>>},
        n \in {Absent, <<50>>, <<150>>} }

InitParserSpec ==
    /\ phase = "parse"
    /\ rules = DefaultRules
    /\ ctx = BaseContext
    /\ result = NotDecided
    /\ BotIdle

(* state = parser.parse_output(output)                                     *)
ParseStep ==
    /\ phase = "parse"
    /\ \E f \in ParserFrames :
          /\ parser' = parse_output(parser, f)
          /\ screen' = f
    /\ UNCHANGED <<phase, enginevars, bot, tracker, sent, returned, hist, creation, game>>

NextParser == ParseStep

SpecParser == InitParserSpec /\ [][NextParser]_vars

-----------------------------------------------------------------------------
(* find_better_armor on an inventory and a set of worn items, built the    *)
(* way the equipment tests build them.                                     *)

MaxArmorItems == 3

ArmorSlots == {<<"body">>, <<"head">>}

Item(t, ac, worn, eslot) ==
    [slot |-> "?", item_type |-> t, identified |-> TRUE, color |-> Absent,
     ac_value |-> ac, is_equipped |-> worn, equipment_slot |-> eslot]

(* what an inventory entry can be: armor for a slot and not worn, armor    *)
(* that is worn, armor of no known slot, something else                    *)
ItemKinds ==
    { Item("armor", ac, FALSE, e) : ac \in {-3, -2, -1, 0}, e \in ArmorSlots }
        \cup { Item("armor", -3, TRUE, <<"body">>),
               Item("armor", -3, FALSE, Absent),
               Item("potion", 0, FALSE, Absent) }

(* state.inventory_items: the entry at position k has the k-th letter      *)
Inventory(kinds) ==
    [k \in 1..Len(kinds) |-> [kinds[k] EXCEPT !.slot = <<"a", "b", "c", "d">>[k]]]

(* state.equipped_items[e[1]] = a worn item of slot e, for the slots given *)
Worn(acs) ==
    LET body == IF acs.body = Absent THEN <<>>
                ELSE <<[Item("armor", acs.body[1], TRUE, <<"body">>) EXCEPT !.slot = "y"]>>
        head == IF acs.head = Absent THEN <<>>
                ELSE <<[Item("armor", acs.head[1], TRUE, <<"head">>) EXCEPT !.slot = "z"]>>
    IN  body \o head

InitArmor ==
    /\ phase = "armor"
    /\ rules = DefaultRules
    /\ ctx = BaseContext
    /\ result = NotDecided
    /\ bot = InitBot
    /\ tracker = InitTracker
    /\ screen = Blank
    /\ sent = NoCommand
    /\ returned = NotCalled
    /\ hist = InitHist
    /\ creation = InitCreation
    /\ game = InitGame
    /\ \E n \in 0..MaxArmorItems : \E kinds \in [1..n -> ItemKinds] :
          \E acs \in [body : {Absent, <<-1>>, <<-2>>}, head : {Absent, <<-1>>, <<-2>>}] :
             parser = [InitParser EXCEPT !.inventory_items = Inventory(kinds),
                                         !.equipped_items = Worn(acs)]

(* result = parser.find_better_armor()                                     *)
FindArmor ==
    /\ phase = "armor"
    /\ phase' = "found"
    /\ LET found == find_better_armor(parser)
       IN  returned' = [call |-> "find_better_armor", none |-> found = Absent,
                        command |-> IF found = Absent THEN NoCommand ELSE <<found[1].slot>>,
                        at |-> 0]
    /\ UNCHANGED <<enginevars, bot, parser, tracker, screen, sent, hist, creation, game>>

NextArmor == FindArmor

SpecArmor == InitArmor /\ [][NextArmor]_vars

-----------------------------------------------------------------------------
(* _calculate_direction_to_enemy on an output of which only the lines that *)
(* hold the player's '@' or the enemy's symbol matter.  A cell is          *)
(* <<row, col>>, col the first index of the character in its line.         *)

MapLines == 21

MaxGlyphLines == 2

(* cells of the first lines, and the first line after the lines scanned    *)
MapCells == (0..2) \X (0..2)

BelowMap == MapLines

(* The output is [ats, glyphs, listed, named]: the cells of the first '@'  *)
(* of each line holding one, the cells of the symbol in the lines above    *)
(* the monsters list, the cell of the symbol in the line of the monsters   *)
(* list ("X   name", symbol at index 0) if there is one, and whether an    *)
(* enemy name was passed.                                                  *)
OneCellPerLine(S) == \A a \in S : \A b \in S : a[1] = b[1] => a = b

(* row of the last line, among the first MapLines lines, that holds a      *)
(* character of the cells S; the loop over lines[:21] keeps the last find  *)
LastFound(S) ==
    LET onmap == { c \in S : c[1] < MapLines }
    IN  IF onmap = {} THEN Absent
        ELSE <<CHOOSE c \in onmap : \A d \in onmap : d[1] <= c[1]>>

Abs(n) == IF n < 0 THEN -n ELSE n

VerticalOnTie(row_diff, col_diff) ==
    IF Abs(row_diff) >= Abs(col_diff) THEN (IF row_diff > 0 THEN "j" ELSE "k")
    ELSE (IF col_diff > 0 THEN "l" ELSE "h")

(* the if / elif / else over row_diff and col_diff                         *)
DirectionKey(row_diff, col_diff) ==
    IF Abs(row_diff) > Abs(col_diff) THEN (IF row_diff > 0 THEN "j" ELSE "k")
    ELSE IF Abs(col_diff) > Abs(row_diff) THEN (IF col_diff > 0 THEN "l" ELSE "h")
    ELSE IF row_diff > 0 THEN (IF col_diff > 0 THEN "n" ELSE "b")
    ELSE (IF col_diff > 0 THEN "u" ELSE "y")

(* Absent for None                                                         *)
calculate_direction_to_enemy(out) ==
    IF ~out.named THEN Absent
    ELSE IF out.listed = Absent THEN Absent
    ELSE LET player == LastFound(out.ats)
             enemy == LastFound(out.glyphs \cup {out.listed[1]})
         IN  IF player = Absent \/ enemy = Absent THEN Absent
             ELSE <<DirectionKey(enemy[1][1] - player[1][1], enemy[1][2] - player[1][2])>>

InitDirection ==
    /\ phase = "locate"
    /\ rules = DefaultRules
    /\ ctx = BaseContext
    /\ result = NotDecided
    /\ bot = InitBot
    /\ parser = InitParser
    /\ tracker = InitTracker
    /\ sent = NoCommand
    /\ returned = NotCalled
    /\ hist = InitHist
    /\ creation = InitCreation
    /\ game = InitGame
    /\ \E A \in SUBSET (MapCells \cup {<<BelowMap, 1>>}) : \E G \in SUBSET MapCells :
          \E l \in {Absent, <<<<BelowMap, 0>>>>, <<<<BelowMap - 1, 0>>>>} : \E nm \in BOOLEAN :
             /\ Cardinality(A) <= MaxGlyphLines
             /\ Cardinality(G) <= MaxGlyphLines
             /\ OneCellPerLine(A)
             /\ OneCellPerLine(G)
             /\ A \cap G = {}
             /\ screen = [ats |-> A, glyphs |-> G, listed |-> l, named |-> nm]

(* enemy_direction = self._calculate_direction_to_enemy(output, name)      *)
CalculateDirection ==
    /\ phase = "locate"
    /\ phase' = "located"
    /\ LET found == calculate_direction_to_enemy(screen)
       IN  returned' = [call |-> "_calculate_direction_to_enemy", none |-> found = Absent,
                        command |-> found, at |-> 0]
    /\ UNCHANGED <<enginevars, bot, parser, tracker, screen, sent, hist, creation, game>>

NextDirection == CalculateDirection

SpecDirection == InitDirection /\ [][NextDirection]_vars

-----------------------------------------------------------------------------
(* DCSSLayoutParser._extract_message_log on the lines of a screen.  A line *)
(* is told by what the test looks at: empty, blanks only, beginning with   *)
(* '_', or other text.                                                     *)

LastMapRow == 20

LineKinds == {"", "   ", "_ text", "text"}

StartsWithSeparator(line) == line = "_ text"

(* line.strip()                                                            *)
Strip(line) == IF line = "   " THEN "" ELSE line

(* rows of a screen of 23 lines that may hold something                    *)
SomeRows == {0, LastMapRow - 1, LastMapRow, LastMapRow + 1, LastMapRow + 2}

MessageRowFromMap(row_idx, line) ==
    StartsWithSeparator(line) \/ (Strip(line) # "" /\ row_idx >= LastMapRow)

(* line.startswith('_') or (line.strip() and row_idx > 20)                 *)
MessageRow(row_idx, line) ==
    StartsWithSeparator(line) \/ (Strip(line) # "" /\ row_idx > LastMapRow)

RECURSIVE MessageLines(_, _, _)
(* the loop over enumerate(lines) from row_idx on: area is [top, bottom,   *)
(* content], top Absent for None                                           *)
MessageLines(lines, row_idx, area) ==
    IF row_idx \notin DOMAIN lines THEN area
    ELSE IF MessageRow(row_idx, lines[row_idx])
         THEN MessageLines(lines, row_idx + 1,
                  [top |-> IF area.top = Absent THEN <<row_idx>> ELSE area.top,
                   bottom |-> <<row_idx>>,
                   content |-> Append(area.content, lines[row_idx])])
         ELSE MessageLines(lines, row_idx + 1, area)

(* the TUIArea returned, Absent for None                                   *)
extract_message_log(lines) ==
    LET area == MessageLines(lines, 0, [top |-> Absent, bottom |-> Absent, content |-> <<>>])
    IN  IF area.top # Absent /\ area.content # <<>>
        THEN <<[name |-> "message_log", top |-> area.top[1], bottom |-> area.bottom[1],
                content |-> area.content]>>
        ELSE Absent

InitLayout ==
    /\ phase = "layout"
    /\ rules = DefaultRules
    /\ ctx = BaseContext
    /\ result = NotDecided
    /\ bot = InitBot
    /\ parser = InitParser
    /\ tracker = InitTracker
    /\ sent = NoCommand
    /\ returned = NotCalled
    /\ hist = InitHist
    /\ creation = InitCreation
    /\ game = InitGame
    /\ \E f \in [SomeRows -> LineKinds] :
          screen = [r \in 0..(LastMapRow + 2) |-> IF r \in SomeRows THEN f[r] ELSE ""]

(* self.message_log = self._extract_message_log(lines)                     *)
ExtractMessageLog ==
    /\ phase = "layout"
    /\ phase' = "extracted"
    /\ LET area == extract_message_log(screen)
       IN  returned' = [call |-> "_extract_message_log", none |-> area = Absent,
                        command |-> NoCommand, at |-> 0, area |-> area]
    /\ UNCHANGED <<enginevars, bot, parser, tracker, screen, sent, hist, creation, game>>

NextLayout == ExtractMessageLog

SpecLayout == InitLayout /\ [][NextLayout]_vars

-----------------------------------------------------------------------------
(* The loop of run with _refresh_inventory called between iterations, on a *)
(* game screen or an inventory screen of one line.                         *)

RefreshScreens ==
    { Screen({}, Absent, Hud(1, 1, <<71, 100>>), ".", <<>>),
      Screen({}, Absent, NoHud, ".",
             <<[slot |-> "a",
                desc |-> [enchant |-> <<"+", 2>>, noun |-> "leather armour",
                          colour |-> Absent, unknown |-> FALSE]]>>) }

RefreshReadOutput == \E f \in RefreshScreens : ReadOutput(f)

RefreshResponse == \E r \in RefreshScreens : Response(r)

NextRefresh ==
    \/ RefreshReadOutput
    \/ NoOutput
    \/ EngineDecide
    \/ RefreshResponse
    \/ NoResponse
    \/ LoopExit
    \/ RefreshInventory

SpecRefresh == InitLoop /\ [][NextRefresh]_vars

-----------------------------------------------------------------------------
(* The GameStateMachine                                                    *)

(* no quit or error phrase, gameplay indicators, no menu indicator         *)
PlainGameplayFrame(f) ==
    /\ "quit" \notin f.texts
    /\ "error" \notin f.texts
    /\ "please select" \notin f.texts
    /\ f.depth # Absent

(* C21 as stated: after an update on a frame with no quit or error phrase, *)
(* with gameplay indicators and no menu indicator, the machine is in the   *)
(* plain gameplay state, whether it was connected, in gameplay, in a menu  *)
(* or in combat before.                                                    *)
C21_Original ==
    [][(/\ Updated
        /\ PlainGameplayFrame(game'.last_screen)
        /\ game.state \in {"connected", "gameplay", "in_menu", "in_combat"})
       => game'.state = "gameplay"]_vars

(* C22 as stated: the combat state follows the enemy-nearby flag and not   *)
(* the screen text: an update from gameplay with enemy_nearby true leaves  *)
(* the machine in combat, and an update without the flag moves it neither  *)
(* into nor out of combat.                                                 *)
C22_Original ==
    [][Updated =>
        /\ (game.state = "gameplay" /\ hist'.enemy_flag = <<TRUE>>)
              => game'.state = "in_combat"
        /\ hist'.enemy_flag = Absent => (is_in_combat(game') <=> is_in_combat(game))]_vars

-----------------------------------------------------------------------------
(* Health thresholds of the default engine                                 *)

(* no rule of the CRITICAL, URGENT or HIGH band applies                    *)
NoBandBeforeNormal == NoCriticalCondition /\ ~HighCondition /\ ~UrgentCondition

C25_ExploreThreshold ==
    (/\ phase = "decided"
     /\ ctx.has_gameplay_indicators
     /\ NothingBeforeGoto
     /\ ctx.goto_state = "None"
     /\ ctx.last_action_sent # Tab) =>
        /\ ~result.none
        /\ result.command = <<"o">> <=> ctx.health * 100 >= 60 * ctx.max_health
        /\ result.command = <<"5">> <=> ctx.health * 100 < 60 * ctx.max_health

(* At 60/100 explore was returned.                                         *)
C25_Witness ==
    /\ phase = "decided"
    /\ ctx.has_gameplay_indicators
    /\ NothingBeforeGoto
    /\ ctx.goto_state = "None"
    /\ ctx.last_action_sent # Tab
    /\ ctx.health = 60
    /\ ctx.max_health = 100
    /\ result.command = <<"o">>

(* C24 as stated: the movement command sent for combat at a health         *)
(* percentage of at most 70 is the direction computed for the detected     *)
(* enemy.                                                                  *)
C24_Original ==
    [][(/\ Turn
        /\ "enemy in range" \in screen.texts
        /\ parser.max_health > 0
        /\ parser.health * 100 <= 70 * parser.max_health)
       => sent' = <<screen.toward>>]_vars

-----------------------------------------------------------------------------
(* GameStateParser                                                         *)

Parsed == phase = "parse" /\ phase' = "parse"

(* C26: every field that the parsed snapshot does not show keeps the value *)
(* it had after the previous parse; in particular a snapshot without a     *)
(* status line leaves health, max_health, mana and max_mana as they were.  *)
C26_Original ==
    [][Parsed =>
          /\ screen'.xl = Absent => parser'.experience_level = parser.experience_level
          /\ screen'.next = Absent
                => parser'.experience_progress = parser.experience_progress
          /\ screen'.hp = Absent
                => /\ parser'.health = parser.health
                   /\ parser'.max_health = parser.max_health
          /\ screen'.mp = Absent
                => /\ parser'.mana = parser.mana
                   /\ parser'.max_mana = parser.max_mana]_vars

(* C27: parsing the snapshot that was just parsed once more changes        *)
(* neither the game state nor the health and mana caches.                  *)
C27_ParseIdempotent ==
    phase = "parse" => parse_output(parser, screen) = parser

(* a snapshot that shows a new health and a level was parsed               *)
C27_Witness ==
    /\ phase = "parse"
    /\ screen.hp = <<<<20, 30>>>>
    /\ screen.xl = <<2>>
    /\ parser.health = 20
    /\ parser.last_health = <<20, 30>>
    /\ parser.experience_level = 2

(* C28: after any parse, health is at most max_health when max_health is   *)
(* positive, and experience_progress lies between 0 and 100.               *)
C28_Original ==
    phase = "parse" =>
        /\ parser.max_health > 0 => parser.health <= parser.max_health
        /\ parser.experience_progress >= 0
        /\ parser.experience_progress <= 100

-----------------------------------------------------------------------------
(* find_better_armor                                                       *)

(* the armor items of the inventory that are not worn                      *)
SpareArmor ==
    { k \in 1..Len(parser.inventory_items) :
        /\ parser.inventory_items[k].item_type = "armor"
        /\ ~parser.inventory_items[k].is_equipped }

(* C29: find_better_armor returns None when every armor item that is not   *)
(* worn has an armor class equal to or worse than (not below) that of the  *)
(* item worn in its equipment slot.                                        *)
C29_NoneWithoutImprovement ==
    (/\ phase = "found"
     /\ \A k \in SpareArmor :
           \E e \in 1..Len(parser.equipped_items) :
              /\ parser.equipped_items[e].equipment_slot
                    = parser.inventory_items[k].equipment_slot
              /\ parser.inventory_items[k].ac_value >= parser.equipped_items[e].ac_value)
        => returned.none

(* an armor item of the class of the one worn in its slot, and nothing     *)
(* returned                                                                *)
C29_Witness ==
    /\ phase = "found"
    /\ returned.none
    /\ \E k \in SpareArmor : \E e \in 1..Len(parser.equipped_items) :
          /\ parser.equipped_items[e].equipment_slot
                = parser.inventory_items[k].equipment_slot
          /\ parser.inventory_items[k].ac_value = parser.equipped_items[e].ac_value
          /\ parser.inventory_items[k].ac_value < 0

(* position in the inventory of the entry whose letter was returned        *)
ReturnedAt ==
    CHOOSE k \in 1..Len(parser.inventory_items) :
        <<parser.inventory_items[k].slot>> = returned.command

(* C30: of several candidates find_better_armor returns one of the largest *)
(* improvement, and of those of equal improvement the one that comes first *)
(* in the inventory.                                                       *)
C30_LargestThenFirst ==
    (phase = "found" /\ Len(BetterItems(parser)) >= 2) =>
        /\ ~returned.none
        /\ \E k \in 1..Len(parser.inventory_items) :
              <<parser.inventory_items[k].slot>> = returned.command
        /\ Improvement(parser, parser.inventory_items[ReturnedAt]) # Absent
        /\ \A j \in 1..Len(parser.inventory_items) :
              LET gain == Improvement(parser, parser.inventory_items[j])
                  best == Improvement(parser, parser.inventory_items[ReturnedAt])
              IN  gain # Absent =>
                     /\ gain[1] <= best[1]
                     /\ j < ReturnedAt => gain[1] < best[1]

(* two candidates of the same improvement for different slots, the first   *)
(* of them returned, and a lesser candidate before both                    *)
C30_Witness ==
    /\ phase = "found"
    /\ Len(BetterItems(parser)) = 3
    /\ returned.command = <<"b">>
    /\ Improvement(parser, parser.inventory_items[1])[1]
          < Improvement(parser, parser.inventory_items[2])[1]
    /\ Improvement(parser, parser.inventory_items[2])
          = Improvement(parser, parser.inventory_items[3])
    /\ parser.inventory_items[2].equipment_slot # parser.inventory_items[3].equipment_slot

-----------------------------------------------------------------------------
(* C31: find_better_armor returns a candidate whenever some armor item     *)
(* that is not worn has an armor class strictly below that of the item     *)
(* worn in its slot, or is for a slot in which nothing is worn.            *)
C31_Original ==
    (/\ phase = "found"
     /\ \E k \in SpareArmor :
           /\ parser.inventory_items[k].equipment_slot # Absent
           /\ \/ \A e \in 1..Len(parser.equipped_items) :
                    parser.equipped_items[e].equipment_slot
                       # parser.inventory_items[k].equipment_slot
              \/ \E e \in 1..Len(parser.equipped_items) :
                    /\ parser.equipped_items[e].equipment_slot
                          = parser.inventory_items[k].equipment_slot
                    /\ parser.inventory_items[k].ac_value
                          < parser.equipped_items[e].ac_value)
        => ~returned.none

-----------------------------------------------------------------------------
(* _calculate_direction_to_enemy                                           *)

(* the cells of '@' and of the enemy's symbol in the lines scanned         *)
PlayerOnMap == { c \in screen.ats : c[1] < MapLines }

EnemyOnMap ==
    { c \in screen.glyphs \cup (IF screen.listed = Absent THEN {} ELSE {screen.listed[1]}) :
        c[1] < MapLines }

-----------------------------------------------------------------------------
(* _extract_message_log                                                    *)

(* the k-th row, from the top, of a set of rows                            *)
NthRow(E, k) == CHOOSE r \in E : Cardinality({q \in E : q < r}) = k - 1

(* the area returned holds exactly the rows E of the screen, top to bottom *)
AreaHolds(E) ==
    IF E = {} THEN returned.none
    ELSE /\ ~returned.none
         /\ Len(returned.area[1].content) = Cardinality(E)
         /\ \A k \in 1..Cardinality(E) : returned.area[1].content[k] = screen[NthRow(E, k)]
         /\ \A r \in E : returned.area[1].top <= r /\ r <= returned.area[1].bottom
         /\ returned.area[1].top \in E
         /\ returned.area[1].bottom \in E

(* C33 as stated: the message log holds exactly the rows that begin with   *)
(* the separator or are non-empty at row 20 or below it, row 20 included.  *)
C33_Original ==
    phase = "extracted" =>
        AreaHolds({ r \in DOMAIN screen :
                      \/ screen[r] = "_ text"
                      \/ (screen[r] \in {"_ text", "text"} /\ r >= 20) })

(* C33, amended: the message log holds exactly the rows that begin with    *)
(* the separator or are non-empty below row 20; a non-empty row 20 without *)
(* the separator is not part of it.                                        *)
C33_BelowRow20 ==
    phase = "extracted" =>
        AreaHolds({ r \in DOMAIN screen :
                      \/ screen[r] = "_ text"
                      \/ (screen[r] \in {"_ text", "text"} /\ r > 20) })

(* text at rows 20 and 21 and a separator line above: the area has the     *)
(* separator line and row 21                                               *)
C33_Witness ==
    /\ phase = "extracted"
    /\ screen[0] = "_ text"
    /\ screen[20] = "text"
    /\ screen[21] = "text"
    /\ screen[22] = "   "
    /\ ~returned.none
    /\ returned.area[1].top = 0
    /\ returned.area[1].bottom = 21
    /\ returned.area[1].content = <<"_ text", "text">>

-----------------------------------------------------------------------------
(* C34: a pending equip or quaff slot is cleared by the turn that follows  *)
(* the helper's command, so a slot that is pending when a turn begins is   *)
(* no longer pending when the turn has sent its command.                   *)
C34_Original ==
    [][Turn =>
          /\ bot.quaff_slot # Absent => bot'.quaff_slot = Absent
          /\ bot.equip_slot # Absent => bot'.equip_slot = Absent]_vars

-----------------------------------------------------------------------------
(* C35: update never sends an event that has no transition from the        *)
(* current state, so it raises for no screen text in no state.             *)
C35_Original == [][Updated => ~game'.raised]_vars

-----------------------------------------------------------------------------
(* C36: whenever the screen a turn decides on is detected as the inventory *)
(* screen, the command the turn sends is Escape.                           *)
C36_Original == [][(Turn /\ screen.inv # <<>>) => sent' = <<"ESC">>]_vars

(* C37: a turn that finds no inventory screen more than 3 moves after      *)
(* _refresh_inventory, none having been found since, resets                *)
(* in_inventory_screen to False.                                           *)
C37_Original ==
    [][(/\ Turn
        /\ bot.in_inventory_screen
        /\ screen.inv = <<>>
        /\ parser.inventory_items = <<>>
        /\ bot.move_count - bot.last_inventory_refresh > 3)
          => ~bot'.in_inventory_screen]_vars

-----------------------------------------------------------------------------
(* C38: from every state but gameplay, startup included, an update with a  *)
(* frame that holds all three HUD markers leaves the machine in gameplay.  *)
C38_Original ==
    [][(Updated /\ creation.state # "gameplay" /\ AllHudMarkers(creation'.screen_text))
          => creation'.state = "gameplay"]_vars

(* C39: whatever frames update is called with, the machine is never in the *)
(* error state and never in the confirmation state.                        *)
C39_NeverErrorOrConfirmation ==
    creation.state \notin {"error", "confirmation"}

(* four updates, the last on a frame no transition is sent for, and the    *)
(* machine at the difficulty menu                                          *)
C39_Witness ==
    /\ hist.updates = 4
    /\ creation.state = "difficulty"
    /\ creation.last_state = "difficulty"
    /\ creation.stuck_count >= 0
    /\ "species" \in creation.screen_text

(* C40: rules of equal priority are evaluated in the order they were       *)
(* added.  In the NORMAL band of the default engine, with no CRITICAL,     *)
(* HIGH or URGENT rule applying: an enemy detected gives a combat command  *)
(* whatever goto_state and the last action are; otherwise a goto state     *)
(* gives its goto response even right after an autofight; otherwise the    *)
(* action after an autofight is the pause '.', not explore or rest.        *)
C40_NormalBandOrder ==
    (phase = "decided" /\ NoBandBeforeNormal) =>
        /\ ctx.enemy_detected => result.command \in {Tab, <<"l">>}
        /\ (~ctx.enemy_detected /\ ctx.goto_state = "awaiting_location_type") =>
              result.command = <<"D">>
        /\ (~ctx.enemy_detected /\ ctx.goto_state = "awaiting_level_number") =>
              IsDecimalOf(result.command, ctx.goto_target_level)
        /\ (/\ ~ctx.enemy_detected
            /\ ctx.goto_state = "None"
            /\ ctx.last_action_sent = Tab) => result.command = <<".">>

(* An enemy is detected while goto_state is awaiting_location_type and the *)
(* gameplay indicators are present: the autofight command was returned.    *)
C40_Witness ==
    /\ phase = "decided"
    /\ NoBandBeforeNormal
    /\ ctx.enemy_detected
    /\ ctx.goto_state = "awaiting_location_type"
    /\ ctx.has_gameplay_indicators
    /\ ctx.health = 71
    /\ result.command = Tab

=============================================================================
